---- MODULE Spec2Model ----
(***************************************************************************)
(* Dijkstra visualizer: Grid / Node / Pathfinder / PathfindingManager.     *)
(* The grid is a GridRows x GridCols array of nodes shared by the          *)
(* controller thread (PathfindingManager's public methods) and the worker  *)
(* threads it starts (PathfindingManager._run_pathfinding_thread, which    *)
(* runs Pathfinder.dijkstra and Pathfinder.reconstruct_path).              *)
(***************************************************************************)
EXTENDS Integers, Sequences, FiniteSets, TLC

\* ------------------------------------------------------------------ bounds
GridRows == 2
GridCols == 3
MaxRuns == 2
MaxOpen == 3
AppRuns == 1
MaxMazeDim == 7
MaxWallDim == 5
MaxPrimDim == 7

\* ------------------------------------------------------------------ nodes
Node == (0 .. GridRows - 1) \X (0 .. GridCols - 1)
None == << >>
NumCells == GridRows * GridCols
\* float('inf'): larger than every finite distance, and inf + 1 = inf
Inf == NumCells + 1
Plus1(d) == IF d = Inf THEN Inf ELSE d + 1

NODE_DEFAULT == "NODE_DEFAULT"
NODE_START == "NODE_START"
NODE_END == "NODE_END"
NODE_VISITED == "NODE_VISITED"
NODE_PATH == "NODE_PATH"
NODE_NEIGHBOR == "NODE_NEIGHBOR"
WALL == "WALL"

\* row-major position of a node (the order Grid.initialize_grid creates them)
Index(n) == n[1] * GridCols + n[2]

\* id(node): the tie-break key of the priority queue.  It is fixed for the
\* life of a node; which injective assignment the allocator produces is open.
KeyOrders == {"ascending", "descending"}
IdOf(k, n) == IF k = "ascending" THEN Index(n) ELSE NumCells - 1 - Index(n)

directions == << <<0, 1>>, <<0, -1>>, <<1, 0>>, <<-1, 0>> >>

\* a lookup without the lower bounds: grid[row][col] with Python's negative
\* indices, which count from the end of the list
get_node_wrapping(row, col) ==
  IF row < GridRows /\ col < GridCols
    THEN <<(row + GridRows) % GridRows, (col + GridCols) % GridCols>> ELSE None

\* Grid.get_node
get_node(row, col) ==
  IF row \in 0 .. GridRows - 1 /\ col \in 0 .. GridCols - 1 THEN <<row, col>> ELSE None

\* Grid.set_neighbors: for every node the in-bounds, non-wall cardinal
\* neighbours, in the order of `directions`
NeighborsThroughWalls(walls, n) ==
  LET cand == [i \in 1 .. 4 |-> get_node(n[1] + directions[i][1], n[2] + directions[i][2])]
      ok(m) == m # None
  IN  SelectSeq(cand, ok)

NeighborsOf(walls, n) ==
  LET cand == [i \in 1 .. 4 |-> get_node(n[1] + directions[i][1], n[2] + directions[i][2])]
      ok(m) == m # None /\ ~walls[m]
  IN  SelectSeq(cand, ok)
set_neighbors(walls) == [n \in Node |-> NeighborsOf(walls, n)]

\* the nodes of a list, and a list without repetitions
Elements(list) == {list[i] : i \in DOMAIN list}
NoRepeat(list) == Cardinality(Elements(list)) = Len(list)

Reverse(s) == [i \in 1 .. Len(s) |-> s[Len(s) + 1 - i]]

\* ------------------------------------------------------------------ state
VARIABLES
  \* Grid and Node fields
  is_wall, color, distance, previous, visited, neighbors, start_node, end_node, id,
  \* PathfindingManager fields
  pathfinding_thread, pathfinding_active, pathfinding_paused, pathfinding_completed,
  path_found, quit_requested, last_path_length,
  \* controller thread: position, and the number of threads created so far
  ctl, runs,
  \* worker threads: position and the locals of dijkstra / reconstruct_path
  pc, pq, unvisited_set, dijkstra_result, path_length, path_todo,
  \* observation of each run (not read by the program): the nodes finalized in
  \* order, the nodes made path in order, how the run ended, whether a stop or
  \* quit was requested while the thread was alive, whether the thread saw
  \* should_stop() answer True, and whether a run that is still uncancelled and
  \* has not yet delivered its length has idled in a pause loop
  order, path_cells, result, signalled, saw_stop, waited,
  \* the arguments `start` and `end` of each worker's call of dijkstra
  start, end,
  \* application: the setup state and the drag flags of the input handling
  state, drawing_walls, erasing_walls,
  \* the grid and the locals of one call of a generator: the stack and the
  \* visited set of _recursive_backtracker, the wall list of _prims_algorithm
  carve,
  \* pathfinding_lock (the set of threads that hold it: none or one), and the
  \* accesses to the manager's flags made by the latest step
  pathfinding_lock, access

gridVars == <<is_wall, color, distance, previous, visited, neighbors, start_node, end_node, id>>
cellVars == <<is_wall, color, distance, previous, visited, neighbors>>
mgrVars == <<pathfinding_thread, pathfinding_active, pathfinding_paused,
             pathfinding_completed, path_found, quit_requested, last_path_length>>
ctlVars == <<ctl, runs>>
localVars == <<pq, unvisited_set, dijkstra_result, path_length, path_todo>>
obsVars == <<order, path_cells, result, signalled, saw_stop, waited>>
argVars == <<start, end>>
appVars == <<state, drawing_walls, erasing_walls>>
lockVars == <<pathfinding_lock, access>>
extVars == <<argVars, appVars, carve, lockVars>>
vars == <<gridVars, mgrVars, ctlVars, pc, localVars, obsVars, extVars>>

\* The threads of one behaviour, named by the number of the run that creates
\* them.  MaxRuns runs are interleaved with every controller call; the restart
\* scenario of SpecRestart creates one more.
RestartRuns == MaxRuns + 1
Workers == 1 .. RestartRuns

\* threading.Thread.is_alive()
is_alive(w) == pc[w] \notin {"unborn", "done"}

\* PathfindingManager.is_pathfinding_in_progress
is_pathfinding_in_progress == pathfinding_active /\ ~pathfinding_completed

\* PathfindingManager.can_start_pathfinding
can_start_pathfinding ==
  start_node # None /\ end_node # None /\ ~is_pathfinding_in_progress

\* PathfindingManager._should_pause / _should_stop
should_pause == pathfinding_paused
should_stop == quit_requested \/ ~pathfinding_active


\* ------------------------------------------------------------------ search
\* Order of heap entries (distance, id(node), node): tuples compare by distance,
\* then by id; two entries with equal distance and id hold the same node, and
\* Node.__lt__ (distance < distance) then answers False.
EntryLess(a, b) == a[1] < b[1] \/ (a[1] = b[1] /\ a[2] < b[2])

\* heapq.heappush: the queue is kept as the sorted sequence of its entries
heappush(q, e) ==
  LET k == Cardinality({i \in DOMAIN q : ~EntryLess(e, q[i])})
  IN  SubSeq(q, 1, k) \o <<e>> \o SubSeq(q, k + 1, Len(q))

\* The reset loop at the head of dijkstra, then grid.set_neighbors(), the start
\* distance, the queue and the eligibility set.  S is the record of everything
\* the search reads or writes.
SearchInit(walls, col, s, e, ids) ==
  [distance  |-> [n \in Node |-> IF n = s THEN 0 ELSE Inf],
   previous  |-> [n \in Node |-> None],
   visited   |-> [n \in Node |-> FALSE],
   color     |-> [n \in Node |-> IF ~walls[n] /\ n # s /\ n # e THEN NODE_DEFAULT ELSE col[n]],
   neighbors |-> set_neighbors(walls),
   pq        |-> << <<0, ids[s], s>> >>,
   unvisited |-> {s}]

\* The body of `for neighbor in current_node.neighbors` for one neighbour
RelaxOne(S, cur, nb, e, ids) ==
  IF S.visited[nb] THEN S
  ELSE LET new_distance == Plus1(S.distance[cur])
       IN  IF new_distance < S.distance[nb]
             THEN LET S1 == [S EXCEPT !.distance[nb] = new_distance, !.previous[nb] = cur]
                  IN  IF nb \notin S.unvisited
                        THEN [S1 EXCEPT !.unvisited = @ \cup {nb},
                                        !.pq = heappush(@, <<new_distance, ids[nb], nb>>),
                                        !.color[nb] = IF nb # e THEN NODE_NEIGHBOR ELSE @]
                        ELSE S1
             ELSE S

RECURSIVE RelaxAll(_, _, _, _, _, _)
RelaxAll(S, cur, nbrs, i, e, ids) ==
  IF i > Len(nbrs) THEN S
  ELSE RelaxAll(RelaxOne(S, cur, nbrs[i], e, ids), cur, nbrs, i + 1, e, ids)

\* One iteration of `while pq` from heappop to the end of the body.
\* ret: "stale" (continue), "found" (return True), "relaxed" (body completed);
\* node: the node finalized by this iteration, None on "stale".
Iteration(S, s, e, ids) ==
  LET cur  == Head(S.pq)[3]
      rest == Tail(S.pq)
  IN  IF cur \notin S.unvisited
        THEN [st |-> [S EXCEPT !.pq = rest], ret |-> "stale", node |-> None]
        ELSE LET S1 == [S EXCEPT !.pq = rest, !.unvisited = @ \ {cur}, !.visited[cur] = TRUE]
             IN  IF cur = e
                   THEN [st |-> S1, ret |-> "found", node |-> cur]
                   ELSE LET S2 == IF cur # s THEN [S1 EXCEPT !.color[cur] = NODE_VISITED] ELSE S1
                        IN  [st   |-> RelaxAll(S2, cur, S2.neighbors[cur], 1, e, ids),
                             ret  |-> "relaxed", node |-> cur]

\* the nodes that following `previous` from cur passes, nearest first
RECURSIVE PredecessorChain(_, _, _)
PredecessorChain(prev, cur, fuel) ==
  IF prev[cur] = None \/ fuel = 0 THEN << >>
  ELSE <<prev[cur]>> \o PredecessorChain(prev, prev[cur], fuel - 1)

\* a backward walk that appends every node it passes, the start node included
WalkBackCountsStart(prev, col, cur, acc, fuel) ==
  [nodes |-> acc \o PredecessorChain(prev, cur, fuel), loops |-> FALSE]

\* The backward walk of reconstruct_path (`while current.previous`): the nodes
\* appended to path_nodes, nearest to the end node first.  A node whose colour is
\* NODE_START is not appended.  fuel bounds the walk: a chain longer than the
\* grid has a cycle, and the walk then never ends (loops is TRUE).
RECURSIVE WalkBack(_, _, _, _, _)
WalkBack(prev, col, cur, acc, fuel) ==
  IF prev[cur] = None THEN [nodes |-> acc, loops |-> FALSE]
  ELSE IF fuel = 0 THEN [nodes |-> acc, loops |-> TRUE]
  ELSE LET nxt == prev[cur]
       IN  WalkBack(prev, col, nxt,
                    IF col[nxt] # NODE_START THEN Append(acc, nxt) ELSE acc, fuel - 1)


\* ------------------------------------------------------------------ grid
\* Node.reset() applied by Grid.clear_path to every node that is not a wall,
\* the start node or the end node
clear_path_color == [n \in Node |->
  IF ~is_wall[n] /\ n # start_node /\ n # end_node THEN NODE_DEFAULT ELSE color[n]]
\* a clearing that resets the distance of every node
ClearDistanceEverywhere == [n \in Node |-> Inf]

clear_path_distance == [n \in Node |->
  IF ~is_wall[n] /\ n # start_node /\ n # end_node THEN Inf ELSE distance[n]]
clear_path_previous == [n \in Node |->
  IF ~is_wall[n] /\ n # start_node /\ n # end_node THEN None ELSE previous[n]]
clear_path_visited == [n \in Node |->
  IF ~is_wall[n] /\ n # start_node /\ n # end_node THEN FALSE ELSE visited[n]]

\* The colours Node.__init__, make_wall, make_start and make_end give a layout
LayoutColor(walls, s, e) ==
  [n \in Node |-> IF walls[n] THEN WALL
                  ELSE IF n = s THEN NODE_START
                  ELSE IF n = e THEN NODE_END ELSE NODE_DEFAULT]

\* A grid as the editing operations leave it: walls, a start and an end node
\* that are distinct and not walls, no search run yet (Node.__init__ values)
Layouts ==
  {L \in [walls : [Node -> BOOLEAN], s : Node, e : Node] :
     L.s # L.e /\ ~L.walls[L.s] /\ ~L.walls[L.e]}

\* the layouts with at most MaxOpen nodes that are not walls and the start node
\* in the first cell: the grids of the runs that are interleaved with every
\* controller call
OpenNodes(L) == {n \in Node : ~L.walls[n]}
SmallLayouts == {L \in Layouts : L.s = <<0, 0>> /\ Cardinality(OpenNodes(L)) <= MaxOpen}

\* The values __init__ gives the fields outside Grid and PathfindingManager.
\* The setup state is the one the clicks that designated the start and the end
\* node have left: WAITING_START with neither, WAITING_END with the start node
\* only, READY with both.
NoCarve == [phase |-> "idle", rows |-> 0, cols |-> 0, is_wall |-> << >>,
            stack |-> << >>, visited |-> {}, iterations |-> 0, openings |-> 0,
            walls |-> << >>]
NoAccess == {}
InitExt(K) ==
  /\ start = [w \in Workers |-> None]
  /\ end = [w \in Workers |-> None]
  /\ state = IF start_node = None THEN "WAITING_START"
             ELSE IF end_node = None THEN "WAITING_END" ELSE "READY"
  /\ drawing_walls = FALSE
  /\ erasing_walls = FALSE
  /\ carve = K
  /\ pathfinding_lock = {}
  /\ access = NoAccess

\* The state after construction with a grid edited to one of the layouts LS,
\* the ids in one of the orders KS, and the generator in state K
InitCarve(LS, KS, K) ==
  /\ \E L \in LS :
       /\ is_wall = L.walls
       /\ start_node = L.s
       /\ end_node = L.e
       /\ color = LayoutColor(L.walls, L.s, L.e)
  /\ \E k \in KS : id = [n \in Node |-> IdOf(k, n)]
  /\ distance = [n \in Node |-> Inf]
  /\ previous = [n \in Node |-> None]
  /\ visited = [n \in Node |-> FALSE]
  /\ neighbors = [n \in Node |-> << >>]
  /\ pathfinding_thread = 0
  /\ pathfinding_active = FALSE
  /\ pathfinding_paused = FALSE
  /\ pathfinding_completed = FALSE
  /\ path_found = FALSE
  /\ quit_requested = FALSE
  /\ last_path_length = 0
  /\ ctl = "idle"
  /\ runs = 0
  /\ pc = [w \in Workers |-> "unborn"]
  /\ pq = [w \in Workers |-> << >>]
  /\ unvisited_set = [w \in Workers |-> {}]
  /\ dijkstra_result = [w \in Workers |-> FALSE]
  /\ path_length = [w \in Workers |-> 0]
  /\ path_todo = [w \in Workers |-> << >>]
  /\ order = [w \in Workers |-> << >>]
  /\ path_cells = [w \in Workers |-> << >>]
  /\ result = [w \in Workers |-> "none"]
  /\ signalled = [w \in Workers |-> FALSE]
  /\ saw_stop = [w \in Workers |-> FALSE]
  /\ waited = [w \in Workers |-> FALSE]
  /\ InitExt(K)

\* the same with no generator call under way
InitWith(LS, KS) == InitCarve(LS, KS, NoCarve)

\* ------------------------------------------------------------------ controller
\* PathfindingManager.start_pathfinding: the guard, the flags under the lock,
\* clear_path_callback() (Grid.clear_path) and the new thread
StartRun(limit) ==
  /\ ctl = "idle"
  /\ runs < limit
  /\ can_start_pathfinding
  /\ pathfinding_active' = TRUE
  /\ pathfinding_paused' = FALSE
  /\ pathfinding_completed' = FALSE
  /\ color' = clear_path_color
  /\ distance' = clear_path_distance
  /\ previous' = clear_path_previous
  /\ visited' = clear_path_visited
  /\ runs' = runs + 1
  /\ pathfinding_thread' = runs + 1
  /\ pc' = [pc EXCEPT ![runs + 1] = "init"]
  /\ UNCHANGED <<is_wall, neighbors, start_node, end_node, id, path_found, quit_requested,
                 last_path_length, ctl, localVars, obsVars>>
  /\ UNCHANGED extVars

start_pathfinding == StartRun(MaxRuns)

\* PathfindingManager.toggle_pause
toggle_pause ==
  /\ ctl = "idle"
  /\ is_pathfinding_in_progress
  /\ pathfinding_paused' = ~pathfinding_paused
  /\ UNCHANGED <<gridVars, pathfinding_thread, pathfinding_active, pathfinding_completed,
                 path_found, quit_requested, last_path_length, ctlVars, pc, localVars, obsVars>>
  /\ UNCHANGED extVars

\* The flags stop_pathfinding sets under the lock, and where the controller is
\* next: in join(timeout=1.0) when the thread exists and is alive
StopFlags ==
  /\ pathfinding_active' = FALSE
  /\ pathfinding_completed' = TRUE
  /\ ctl' = IF pathfinding_thread # 0 /\ is_alive(pathfinding_thread) THEN "joining" ELSE "idle"
  /\ signalled' = [w \in Workers |-> signalled[w] \/ is_alive(w)]

\* PathfindingManager.stop_pathfinding
stop_pathfinding ==
  /\ ctl = "idle"
  /\ StopFlags
  /\ UNCHANGED <<gridVars, pathfinding_thread, pathfinding_paused, path_found, quit_requested,
                 last_path_length, runs, pc, localVars, order, path_cells, result, saw_stop, waited>>
  /\ UNCHANGED extVars

\* PathfindingManager.request_quit
request_quit ==
  /\ ctl = "idle"
  /\ quit_requested' = TRUE
  /\ IF is_pathfinding_in_progress
       THEN StopFlags
       ELSE /\ signalled' = [w \in Workers |-> signalled[w] \/ is_alive(w)]
            /\ UNCHANGED <<pathfinding_active, pathfinding_completed, ctl>>
  /\ UNCHANGED <<gridVars, pathfinding_thread, pathfinding_paused, path_found,
                 last_path_length, runs, pc, localVars, order, path_cells, result, saw_stop, waited>>
  /\ UNCHANGED extVars

\* Thread.join(timeout=1.0) returns because the thread ended
JoinReturn ==
  /\ ctl = "joining"
  /\ ~is_alive(pathfinding_thread)
  /\ ctl' = "idle"
  /\ UNCHANGED <<gridVars, mgrVars, runs, pc, localVars, obsVars>>
  /\ UNCHANGED extVars

\* Thread.join(timeout=1.0) returns because the second elapsed; the thread is
\* still alive
JoinTimeout ==
  /\ ctl = "joining"
  /\ is_alive(pathfinding_thread)
  /\ ctl' = "idle"
  /\ UNCHANGED <<gridVars, mgrVars, runs, pc, localVars, obsVars>>
  /\ UNCHANGED extVars


\* ------------------------------------------------------------------ worker
\* The locals of dijkstra and reconstruct_path go out of scope when the call
\* returns or an exception unwinds it: the model then holds their initial values.
Dropped(f, w, v) == [f EXCEPT ![w] = v]
DropSearchLocals(w) ==
  /\ pq' = Dropped(pq, w, << >>)
  /\ unvisited_set' = Dropped(unvisited_set, w, {})
  /\ start' = Dropped(start, w, None)
  /\ end' = Dropped(end, w, None)
DropAllLocals(w) ==
  /\ DropSearchLocals(w)
  /\ dijkstra_result' = Dropped(dijkstra_result, w, FALSE)
  /\ path_length' = Dropped(path_length, w, 0)
  /\ path_todo' = Dropped(path_todo, w, << >>)

\* a setup whose reset loop leaves node.visited as it finds it
DijkstraSetupKeepsVisited(w) ==
  /\ pc[w] = "init"
  /\ IF start_node = None \/ end_node = None
       THEN /\ pc' = [pc EXCEPT ![w] = "finally"]
            /\ UNCHANGED <<cellVars, pq, unvisited_set, argVars>>
       ELSE LET S == SearchInit(is_wall, color, start_node, end_node, id)
            IN  /\ distance' = S.distance
                /\ previous' = S.previous
                /\ color' = S.color
                /\ neighbors' = S.neighbors
                /\ pq' = [pq EXCEPT ![w] = S.pq]
                /\ unvisited_set' = [unvisited_set EXCEPT ![w] = S.unvisited]
                /\ start' = [start EXCEPT ![w] = start_node]
                /\ end' = [end EXCEPT ![w] = end_node]
                /\ pc' = [pc EXCEPT ![w] = "check1"]
                /\ UNCHANGED <<is_wall, visited>>
  /\ UNCHANGED <<start_node, end_node, id, mgrVars, ctlVars, dijkstra_result, path_length,
                 path_todo, obsVars>>
  /\ UNCHANGED <<appVars, carve, lockVars>>

\* _run_pathfinding_thread up to the head of dijkstra's loop: the start/end
\* check, the reset loop, set_neighbors, the queue and the eligibility set
DijkstraSetup(w) ==
  /\ pc[w] = "init"
  /\ IF start_node = None \/ end_node = None
       THEN /\ pc' = [pc EXCEPT ![w] = "finally"]
            /\ UNCHANGED <<cellVars, pq, unvisited_set, argVars>>
       ELSE LET S == SearchInit(is_wall, color, start_node, end_node, id)
            IN  /\ distance' = S.distance
                /\ previous' = S.previous
                /\ visited' = S.visited
                /\ color' = S.color
                /\ neighbors' = S.neighbors
                /\ pq' = [pq EXCEPT ![w] = S.pq]
                /\ unvisited_set' = [unvisited_set EXCEPT ![w] = S.unvisited]
                /\ start' = [start EXCEPT ![w] = start_node]
                /\ end' = [end EXCEPT ![w] = end_node]
                /\ pc' = [pc EXCEPT ![w] = "check1"]
                /\ UNCHANGED is_wall
  /\ UNCHANGED <<start_node, end_node, id, mgrVars, ctlVars, dijkstra_result, path_length,
                 path_todo, obsVars>>
  /\ UNCHANGED <<appVars, carve, lockVars>>

\* `if should_stop(): return False` at the head of the loop body
PollStop1(w) ==
  /\ pc[w] = "check1"
  /\ IF should_stop
       THEN /\ pc' = [pc EXCEPT ![w] = "post"]
            /\ dijkstra_result' = [dijkstra_result EXCEPT ![w] = FALSE]
            /\ saw_stop' = [saw_stop EXCEPT ![w] = TRUE]
            /\ waited' = [waited EXCEPT ![w] = FALSE]
            /\ DropSearchLocals(w)
       ELSE /\ pc' = [pc EXCEPT ![w] = "pause"]
            /\ UNCHANGED <<dijkstra_result, saw_stop, pq, unvisited_set, waited, argVars>>
  /\ UNCHANGED <<gridVars, mgrVars, ctlVars, path_length, path_todo,
                 order, path_cells, result, signalled>>
  /\ UNCHANGED <<appVars, carve, lockVars>>

\* a pause loop that discards the head of the queue while it waits
PauseLoopPops(w) ==
  /\ pc[w] = "pause"
  /\ pc' = [pc EXCEPT ![w] = IF should_pause /\ ~should_stop THEN "pause" ELSE "check2"]
  /\ waited' = [waited EXCEPT ![w] = @ \/ (should_pause /\ ~should_stop)]
  /\ pq' = [pq EXCEPT ![w] = IF should_pause /\ ~should_stop /\ @ # << >> THEN Tail(@) ELSE @]
  /\ UNCHANGED <<gridVars, mgrVars, ctlVars, unvisited_set, dijkstra_result, path_length,
                 path_todo, order, path_cells, result, signalled, saw_stop>>
  /\ UNCHANGED extVars

\* `while should_pause() and not should_stop(): time.sleep(0.1)`: one poll
PauseLoop(w) ==
  /\ pc[w] = "pause"
  /\ pc' = [pc EXCEPT ![w] = IF should_pause /\ ~should_stop THEN "pause" ELSE "check2"]
  /\ waited' = [waited EXCEPT ![w] = @ \/ (should_pause /\ ~should_stop)]
  /\ UNCHANGED <<gridVars, mgrVars, ctlVars, localVars, order, path_cells, result, signalled,
                 saw_stop>>
  /\ UNCHANGED extVars

\* PollStop2 without the return
PollStop2Ignored(w) ==
  /\ pc[w] = "check2"
  /\ pc' = [pc EXCEPT ![w] = "pop"]
  /\ UNCHANGED <<gridVars, mgrVars, ctlVars, localVars, obsVars>>
  /\ UNCHANGED extVars

\* `if should_stop(): return False` after the pause loop
PollStop2(w) ==
  /\ pc[w] = "check2"
  /\ IF should_stop
       THEN /\ pc' = [pc EXCEPT ![w] = "post"]
            /\ dijkstra_result' = [dijkstra_result EXCEPT ![w] = FALSE]
            /\ saw_stop' = [saw_stop EXCEPT ![w] = TRUE]
            /\ waited' = [waited EXCEPT ![w] = FALSE]
            /\ DropSearchLocals(w)
       ELSE /\ pc' = [pc EXCEPT ![w] = "pop"]
            /\ UNCHANGED <<dijkstra_result, saw_stop, pq, unvisited_set, waited, argVars>>
  /\ UNCHANGED <<gridVars, mgrVars, ctlVars, path_length, path_todo,
                 order, path_cells, result, signalled>>
  /\ UNCHANGED <<appVars, carve, lockVars>>

\* heappop and the rest of the loop body, then the `while pq` test
PopStep(w) ==
  /\ pc[w] = "pop"
  /\ LET S == [distance |-> distance, previous |-> previous, visited |-> visited,
               color |-> color, neighbors |-> neighbors, pq |-> pq[w],
               unvisited |-> unvisited_set[w]]
         R == Iteration(S, start[w], end[w], id)
     IN  /\ distance' = R.st.distance
         /\ previous' = R.st.previous
         /\ visited' = R.st.visited
         /\ color' = R.st.color
         /\ IF R.ret = "found" \/ R.st.pq = << >>
              THEN DropSearchLocals(w)
              ELSE /\ pq' = [pq EXCEPT ![w] = R.st.pq]
                   /\ unvisited_set' = [unvisited_set EXCEPT ![w] = R.st.unvisited]
                   /\ UNCHANGED argVars
         /\ order' = [order EXCEPT ![w] = IF R.node = None THEN @ ELSE Append(@, R.node)]
         /\ dijkstra_result' = [dijkstra_result EXCEPT ![w] = (R.ret = "found")]
         /\ pc' = [pc EXCEPT ![w] =
                     IF R.ret = "found" \/ R.st.pq = << >> THEN "post" ELSE "check1"]
  /\ UNCHANGED <<is_wall, neighbors, start_node, end_node, id, mgrVars, ctlVars,
                 path_length, path_todo, path_cells, result, signalled, saw_stop, waited>>
  /\ UNCHANGED <<appVars, carve, lockVars>>

\* `if self._should_stop(): return`, then the branch on dijkstra's result
AfterSearch(w) ==
  /\ pc[w] = "post"
  /\ IF should_stop
       THEN /\ pc' = [pc EXCEPT ![w] = "finally"]
            /\ saw_stop' = [saw_stop EXCEPT ![w] = TRUE]
            /\ waited' = [waited EXCEPT ![w] = FALSE]
            /\ dijkstra_result' = Dropped(dijkstra_result, w, FALSE)
            /\ UNCHANGED path_length
       ELSE /\ pc' = [pc EXCEPT ![w] = IF dijkstra_result[w] THEN "walk" ELSE "set_len"]
            /\ path_length' = [path_length EXCEPT ![w] = 0]
            /\ UNCHANGED <<saw_stop, dijkstra_result, waited>>
  /\ UNCHANGED <<gridVars, mgrVars, ctlVars, pq, unvisited_set, path_todo,
                 order, path_cells, result, signalled>>
  /\ UNCHANGED extVars

\* reconstruct_path(grid.end_node) up to its `for` loop: the backward walk over
\* `previous`.  A walk over a cycle of `previous` links appends without end; the
\* MemoryError that ends it, like the AttributeError of `None.previous` when the
\* end node has been unset meanwhile, is caught by the worker's `except Exception`.
Walk(w) ==
  /\ pc[w] = "walk"
  /\ LET W == IF end_node = None THEN [nodes |-> << >>, loops |-> TRUE]
              ELSE WalkBack(previous, color, end_node, << >>, NumCells)
     IN  IF W.loops
           THEN /\ pc' = [pc EXCEPT ![w] = "finally"]
                /\ result' = [result EXCEPT ![w] = "Error"]
                /\ dijkstra_result' = Dropped(dijkstra_result, w, FALSE)
                /\ UNCHANGED <<path_length, path_todo>>
           ELSE /\ path_length' = [path_length EXCEPT ![w] = Len(W.nodes)]
                /\ path_todo' = [path_todo EXCEPT ![w] = Reverse(W.nodes)]
                /\ pc' = [pc EXCEPT ![w] = IF W.nodes = << >> THEN "set_len" ELSE "rcheck1"]
                /\ UNCHANGED <<result, dijkstra_result>>
  /\ UNCHANGED <<gridVars, mgrVars, ctlVars, pq, unvisited_set,
                 order, path_cells, signalled, saw_stop, waited>>
  /\ UNCHANGED extVars

\* `if should_stop(): return path_length` at the head of the `for` body
RPollStop1(w) ==
  /\ pc[w] = "rcheck1"
  /\ IF should_stop
       THEN /\ pc' = [pc EXCEPT ![w] = "set_len"]
            /\ saw_stop' = [saw_stop EXCEPT ![w] = TRUE]
            /\ waited' = [waited EXCEPT ![w] = FALSE]
            /\ path_todo' = Dropped(path_todo, w, << >>)
       ELSE /\ pc' = [pc EXCEPT ![w] = "rpause"]
            /\ UNCHANGED <<saw_stop, path_todo, waited>>
  /\ UNCHANGED <<gridVars, mgrVars, ctlVars, pq, unvisited_set, dijkstra_result, path_length,
                 order, path_cells, result, signalled>>
  /\ UNCHANGED extVars

\* the pause loop of reconstruct_path: one poll
RPauseLoop(w) ==
  /\ pc[w] = "rpause"
  /\ pc' = [pc EXCEPT ![w] = IF should_pause /\ ~should_stop THEN "rpause" ELSE "rcheck2"]
  /\ waited' = [waited EXCEPT ![w] = @ \/ (should_pause /\ ~should_stop)]
  /\ UNCHANGED <<gridVars, mgrVars, ctlVars, localVars, order, path_cells, result, signalled,
                 saw_stop>>
  /\ UNCHANGED extVars

\* `if should_stop(): return path_length` after the pause loop
RPollStop2(w) ==
  /\ pc[w] = "rcheck2"
  /\ IF should_stop
       THEN /\ pc' = [pc EXCEPT ![w] = "set_len"]
            /\ saw_stop' = [saw_stop EXCEPT ![w] = TRUE]
            /\ waited' = [waited EXCEPT ![w] = FALSE]
            /\ path_todo' = Dropped(path_todo, w, << >>)
       ELSE /\ pc' = [pc EXCEPT ![w] = "mark"]
            /\ UNCHANGED <<saw_stop, path_todo, waited>>
  /\ UNCHANGED <<gridVars, mgrVars, ctlVars, pq, unvisited_set, dijkstra_result, path_length,
                 order, path_cells, result, signalled>>
  /\ UNCHANGED extVars

\* node.make_path() for the next node of reversed(path_nodes)
MarkPath(w) ==
  /\ pc[w] = "mark"
  /\ LET n == Head(path_todo[w])
     IN  /\ color' = [color EXCEPT ![n] = NODE_PATH]
         /\ path_cells' = [path_cells EXCEPT ![w] = Append(@, n)]
  /\ path_todo' = [path_todo EXCEPT ![w] = Tail(@)]
  /\ pc' = [pc EXCEPT ![w] = IF Tail(path_todo[w]) = << >> THEN "set_len" ELSE "rcheck1"]
  /\ UNCHANGED <<is_wall, distance, previous, visited, neighbors, start_node, end_node, id,
                 mgrVars, ctlVars, pq, unvisited_set, dijkstra_result, path_length,
                 order, result, signalled, saw_stop, waited>>
  /\ UNCHANGED extVars

\* `self.last_path_length = ...` of either branch
SetLength(w) ==
  /\ pc[w] = "set_len"
  /\ last_path_length' = path_length[w]
  /\ path_length' = Dropped(path_length, w, 0)
  /\ pc' = [pc EXCEPT ![w] = "set_found"]
  /\ waited' = [waited EXCEPT ![w] = FALSE]
  /\ UNCHANGED <<gridVars, pathfinding_thread, pathfinding_active, pathfinding_paused,
                 pathfinding_completed, path_found, quit_requested, ctlVars, pq, unvisited_set,
                 dijkstra_result, path_todo, order, path_cells, result, signalled, saw_stop>>
  /\ UNCHANGED extVars

\* `self.path_found = True` / `self.path_found = False`
SetFound(w) ==
  /\ pc[w] = "set_found"
  /\ path_found' = dijkstra_result[w]
  /\ result' = [result EXCEPT ![w] = IF dijkstra_result[w] THEN "PathFound" ELSE "NoPath"]
  /\ dijkstra_result' = Dropped(dijkstra_result, w, FALSE)
  /\ pc' = [pc EXCEPT ![w] = "finally"]
  /\ UNCHANGED <<gridVars, pathfinding_thread, pathfinding_active, pathfinding_paused,
                 pathfinding_completed, quit_requested, last_path_length, ctlVars, pq,
                 unvisited_set, path_length, path_todo, order, path_cells, signalled, saw_stop, waited>>
  /\ UNCHANGED extVars

\* the positions inside the `try` block
InTry == {"init", "check1", "pause", "check2", "pop", "post", "walk", "rcheck1", "rpause",
          "rcheck2", "mark", "set_len", "set_found"}

\* an exception that ends the thread without `finally`
RaiseEscapes(w) ==
  /\ pc[w] \in InTry
  /\ pc' = [pc EXCEPT ![w] = "done"]
  /\ result' = [result EXCEPT ![w] = "Error"]
  /\ DropAllLocals(w)
  /\ waited' = [waited EXCEPT ![w] = FALSE]
  /\ UNCHANGED <<gridVars, mgrVars, ctlVars, order, path_cells, signalled, saw_stop>>
  /\ UNCHANGED <<appVars, carve, lockVars>>

\* An exception raised inside the `try` block: `except Exception` prints it and
\* control passes to `finally`
Raise(w) ==
  /\ pc[w] \in InTry
  /\ pc' = [pc EXCEPT ![w] = "finally"]
  /\ result' = [result EXCEPT ![w] = "Error"]
  /\ DropAllLocals(w)
  /\ waited' = [waited EXCEPT ![w] = FALSE]
  /\ UNCHANGED <<gridVars, mgrVars, ctlVars, order, path_cells, signalled, saw_stop>>
  /\ UNCHANGED <<appVars, carve, lockVars>>

\* a `finally` that leaves the flags as they are
FinallyKeepsFlags(w) ==
  /\ pc[w] = "finally"
  /\ pc' = [pc EXCEPT ![w] = "done"]
  /\ UNCHANGED <<gridVars, mgrVars, ctlVars, localVars, obsVars>>
  /\ UNCHANGED extVars

\* `finally`: the flags under the lock; the thread ends
Finally(w) ==
  /\ pc[w] = "finally"
  /\ pathfinding_completed' = TRUE
  /\ pathfinding_active' = FALSE
  /\ pc' = [pc EXCEPT ![w] = "done"]
  /\ UNCHANGED <<gridVars, pathfinding_thread, pathfinding_paused, path_found, quit_requested,
                 last_path_length, ctlVars, localVars, obsVars>>
  /\ UNCHANGED extVars

WorkerStep(w) ==
  \/ DijkstraSetup(w)
  \/ PollStop1(w)
  \/ PauseLoop(w)
  \/ PollStop2(w)
  \/ PopStep(w)
  \/ AfterSearch(w)
  \/ Walk(w)
  \/ RPollStop1(w)
  \/ RPauseLoop(w)
  \/ RPollStop2(w)
  \/ MarkPath(w)
  \/ SetLength(w)
  \/ SetFound(w)
  \/ Finally(w)

Controller ==
  \/ start_pathfinding
  \/ toggle_pause
  \/ stop_pathfinding
  \/ request_quit
  \/ JoinReturn
  \/ JoinTimeout

Next ==
  \/ Controller
  \/ \E w \in Workers : WorkerStep(w)
  \/ \E w \in Workers : Raise(w)

Init == InitWith(SmallLayouts, {"ascending"})

Spec == Init /\ [][Next]_vars

\* The worker threads are scheduled, and their polls of the flags recur
\* (time.sleep(0.1) in the pause loops): a worker step that is possible again
\* and again is taken.  The controller is under no obligation.  The runs of
\* FairSpec are on the layouts whose open nodes are in the first row, none of
\* them beyond the goal: the goal next to the start, the goal at the end of a
\* corridor, and the goal behind a wall.
Fairness == SF_vars(\E w \in Workers : WorkerStep(w))
RowLayouts ==
  {L \in SmallLayouts : OpenNodes(L) \subseteq {n \in Node : n[1] = 0 /\ n[2] <= L.e[2]}}
InitFair == InitWith(RowLayouts, {"ascending"})
FairSpec == InitFair /\ [][Next]_vars /\ Fairness

\* The restart scenario: runs are started, stopped and started again up to
\* RestartRuns times on the corridor layout (the first row open, the start at
\* one end and the goal at the other), without pausing, quitting or injected
\* exceptions
Corridors ==
  {L \in Layouts : /\ L.s = <<0, 0>> /\ L.e = <<0, GridCols - 1>>
                   /\ OpenNodes(L) = {n \in Node : n[1] = 0}}
InitRestart == InitWith(Corridors, {"ascending"})
restart_pathfinding == StartRun(RestartRuns)
NextRestart ==
  \/ restart_pathfinding
  \/ stop_pathfinding
  \/ JoinReturn
  \/ JoinTimeout
  \/ \E w \in Workers : WorkerStep(w)
SpecRestart == InitRestart /\ [][NextRestart]_vars


\* ------------------------------------------------------------------ application
\* The input handling of the application (InputHandler, and the handlers of
\* PathfindingVisualizer that its keyboard actions name), run by the controller
\* thread between the calls of PathfindingManager.

\* PathfindingVisualizer.can_interact_with_grid, the can_interact_callback
can_interact_with_grid == ~is_pathfinding_in_progress

\* f after Node.reset() (m is a node) or after no call (m is None), where v is
\* the value reset() gives the field
ResetIn(f, m, v) == IF m = None THEN f ELSE [f EXCEPT ![m] = v]

\* every field Node.reset() writes, for the one node m
ResetNode(m) ==
  /\ is_wall' = ResetIn(is_wall, m, FALSE)
  /\ distance' = ResetIn(distance, m, Inf)
  /\ previous' = ResetIn(previous, m, None)
  /\ visited' = ResetIn(visited, m, FALSE)

\* InputHandler._handle_left_click
_handle_left_click(node) ==
  IF is_wall[node] THEN UNCHANGED <<gridVars, appVars>>
  ELSE IF state = "WAITING_START"
    THEN /\ ResetNode(start_node)
         /\ color' = [ResetIn(color, start_node, NODE_DEFAULT) EXCEPT ![node] = NODE_START]
         /\ start_node' = node
         /\ state' = "WAITING_END"
         /\ UNCHANGED <<neighbors, end_node, id, drawing_walls, erasing_walls>>
  ELSE IF state = "WAITING_END" /\ node # start_node
    THEN /\ ResetNode(end_node)
         /\ color' = [ResetIn(color, end_node, NODE_DEFAULT) EXCEPT ![node] = NODE_END]
         /\ end_node' = node
         /\ state' = "READY"
         /\ UNCHANGED <<neighbors, start_node, id, drawing_walls, erasing_walls>>
  ELSE UNCHANGED <<gridVars, appVars>>

\* a right click that toggles the start and the end node like any other node
RightClickAnyNode(node) ==
  IF is_wall[node]
    THEN /\ ResetNode(node)
         /\ color' = [color EXCEPT ![node] = NODE_DEFAULT]
         /\ erasing_walls' = TRUE
         /\ UNCHANGED <<neighbors, start_node, end_node, id, state, drawing_walls>>
    ELSE /\ is_wall' = [is_wall EXCEPT ![node] = TRUE]
         /\ color' = [color EXCEPT ![node] = WALL]
         /\ drawing_walls' = TRUE
         /\ UNCHANGED <<distance, previous, visited, neighbors, start_node, end_node, id,
                        state, erasing_walls>>

\* InputHandler._handle_right_click
_handle_right_click(node) ==
  IF node = start_node \/ node = end_node THEN UNCHANGED <<gridVars, appVars>>
  ELSE IF is_wall[node]
    THEN /\ ResetNode(node)
         /\ color' = [color EXCEPT ![node] = NODE_DEFAULT]
         /\ erasing_walls' = TRUE
         /\ UNCHANGED <<neighbors, start_node, end_node, id, state, drawing_walls>>
    ELSE /\ is_wall' = [is_wall EXCEPT ![node] = TRUE]
         /\ color' = [color EXCEPT ![node] = WALL]
         /\ drawing_walls' = TRUE
         /\ UNCHANGED <<distance, previous, visited, neighbors, start_node, end_node, id,
                        state, erasing_walls>>

\* the variables no input handler writes
editFrame == <<pathfinding_thread, pathfinding_active, pathfinding_paused, pathfinding_completed,
               path_found, quit_requested, ctlVars, pc, localVars, obsVars, argVars, carve,
               lockVars>>

\* InputHandler.handle_grid_click for a position inside the grid: button 1 is
\* the left button, button 3 the right one
handle_grid_click(node, button) ==
  /\ ctl = "idle"
  /\ IF ~can_interact_with_grid THEN UNCHANGED <<gridVars, appVars>>
     ELSE IF button = 1 THEN _handle_left_click(node)
     ELSE _handle_right_click(node)
  /\ UNCHANGED <<last_path_length, editFrame>>

\* a drag handler without the can_interact_callback test
handle_mouse_drag_unguarded(node) ==
  /\ ctl = "idle"
  /\ IF node = start_node \/ node = end_node
       THEN UNCHANGED cellVars
     ELSE IF drawing_walls /\ ~is_wall[node]
       THEN /\ is_wall' = [is_wall EXCEPT ![node] = TRUE]
            /\ color' = [color EXCEPT ![node] = WALL]
            /\ UNCHANGED <<distance, previous, visited, neighbors>>
     ELSE IF erasing_walls /\ is_wall[node]
       THEN /\ ResetNode(node)
            /\ color' = [color EXCEPT ![node] = NODE_DEFAULT]
            /\ UNCHANGED neighbors
     ELSE UNCHANGED cellVars
  /\ UNCHANGED <<start_node, end_node, id, appVars, last_path_length, editFrame>>

\* InputHandler.handle_mouse_drag for a position inside the grid
handle_mouse_drag(node) ==
  /\ ctl = "idle"
  /\ IF ~can_interact_with_grid \/ node = start_node \/ node = end_node
       THEN UNCHANGED cellVars
     ELSE IF drawing_walls /\ ~is_wall[node]
       THEN /\ is_wall' = [is_wall EXCEPT ![node] = TRUE]
            /\ color' = [color EXCEPT ![node] = WALL]
            /\ UNCHANGED <<distance, previous, visited, neighbors>>
     ELSE IF erasing_walls /\ is_wall[node]
       THEN /\ ResetNode(node)
            /\ color' = [color EXCEPT ![node] = NODE_DEFAULT]
            /\ UNCHANGED neighbors
     ELSE UNCHANGED cellVars
  /\ UNCHANGED <<start_node, end_node, id, appVars, last_path_length, editFrame>>

\* InputHandler.handle_mouse_button_up
handle_mouse_button_up ==
  /\ ctl = "idle"
  /\ drawing_walls' = FALSE
  /\ erasing_walls' = FALSE
  /\ UNCHANGED <<gridVars, state, last_path_length, editFrame>>

\* a handler that ends with the call of the generator: the grid keeps the
\* references to the nodes that were the start and the end node
generate_walls_keeps_references(W) ==
  /\ ctl = "idle"
  /\ IF ~can_interact_with_grid
       THEN UNCHANGED <<gridVars, state, last_path_length>>
       ELSE /\ is_wall' = W
            /\ color' = [n \in Node |-> IF W[n] THEN WALL ELSE NODE_DEFAULT]
            /\ distance' = [n \in Node |-> Inf]
            /\ previous' = [n \in Node |-> None]
            /\ visited' = [n \in Node |-> FALSE]
            /\ UNCHANGED <<neighbors, id, start_node, end_node, state, last_path_length>>
  /\ UNCHANGED <<drawing_walls, erasing_walls, editFrame>>

\* PathfindingVisualizer.generate_walls.  WallGenerator.generate_wall resets
\* every node and leaves the wall layout W: every layout is a result of
\* _random_maze, and the results of the carving generator are among them.
generate_walls(W) ==
  /\ ctl = "idle"
  /\ IF ~can_interact_with_grid
       THEN UNCHANGED <<gridVars, state, last_path_length>>
       ELSE /\ is_wall' = W
            /\ color' = [n \in Node |-> IF W[n] THEN WALL ELSE NODE_DEFAULT]
            /\ distance' = [n \in Node |-> Inf]
            /\ previous' = [n \in Node |-> None]
            /\ visited' = [n \in Node |-> FALSE]
            /\ start_node' = None
            /\ end_node' = None
            /\ state' = "WAITING_START"
            /\ last_path_length' = 0
            /\ UNCHANGED <<neighbors, id>>
  /\ UNCHANGED <<drawing_walls, erasing_walls, editFrame>>

\* PathfindingVisualizer.clear_path: Grid.clear_path and the length display
clear_path ==
  /\ ctl = "idle"
  /\ IF ~can_interact_with_grid
       THEN UNCHANGED <<color, distance, previous, visited, last_path_length>>
       ELSE /\ color' = clear_path_color
            /\ distance' = clear_path_distance
            /\ previous' = clear_path_previous
            /\ visited' = clear_path_visited
            /\ last_path_length' = 0
  /\ UNCHANGED <<is_wall, neighbors, start_node, end_node, id, appVars, editFrame>>

\* a clear_all that resets the nodes clear_path resets
clear_all_keeps_walls ==
  /\ ctl = "idle"
  /\ IF ~can_interact_with_grid
       THEN UNCHANGED <<gridVars, state, last_path_length>>
       ELSE /\ color' = clear_path_color
            /\ distance' = clear_path_distance
            /\ previous' = clear_path_previous
            /\ visited' = clear_path_visited
            /\ start_node' = None
            /\ end_node' = None
            /\ state' = "WAITING_START"
            /\ last_path_length' = 0
            /\ UNCHANGED <<is_wall, neighbors, id>>
  /\ UNCHANGED <<drawing_walls, erasing_walls, editFrame>>

\* PathfindingVisualizer.clear_all: Grid.clear_all, the setup state and the
\* length display
clear_all ==
  /\ ctl = "idle"
  /\ IF ~can_interact_with_grid
       THEN UNCHANGED <<gridVars, state, last_path_length>>
       ELSE /\ is_wall' = [n \in Node |-> FALSE]
            /\ color' = [n \in Node |-> NODE_DEFAULT]
            /\ distance' = [n \in Node |-> Inf]
            /\ previous' = [n \in Node |-> None]
            /\ visited' = [n \in Node |-> FALSE]
            /\ start_node' = None
            /\ end_node' = None
            /\ state' = "WAITING_START"
            /\ last_path_length' = 0
            /\ UNCHANGED <<neighbors, id>>
  /\ UNCHANGED <<drawing_walls, erasing_walls, editFrame>>

\* The editing scenario: from the grid Grid.__init__ builds (no wall, no start
\* and no end node), every click, drag, generation and clearing in any order,
\* with no run started
Blank == [walls |-> [n \in Node |-> FALSE], s |-> None, e |-> None]
InitEdit == InitWith({Blank}, {"ascending"})
NextEdit ==
  \/ \E node \in Node, button \in {1, 3} : handle_grid_click(node, button)
  \/ \E node \in Node : handle_mouse_drag(node)
  \/ handle_mouse_button_up
  \/ \E W \in [Node -> BOOLEAN] : generate_walls(W)
  \/ clear_path
  \/ clear_all
SpecEdit == InitEdit /\ [][NextEdit]_vars


\* The application scenario: from the corridor layout, AppRuns runs started and
\* stopped at any moment, with every click and drag on the first row, every
\* generation that leaves the second row walled, and the clearing of the path
FirstRow == {n \in Node : n[1] = 0}
RowWalls == {W \in [Node -> BOOLEAN] : \A n \in Node \ FirstRow : W[n]}
app_start_pathfinding == StartRun(AppRuns)
InitApp == InitWith(Corridors, {"ascending"})
NextApp ==
  \/ app_start_pathfinding
  \/ stop_pathfinding
  \/ JoinReturn
  \/ JoinTimeout
  \/ \E w \in Workers : WorkerStep(w)
  \/ \E node \in FirstRow, button \in {1, 3} : handle_grid_click(node, button)
  \/ \E node \in FirstRow : handle_mouse_drag(node)
  \/ handle_mouse_button_up
  \/ \E W \in RowWalls : generate_walls(W)
  \/ clear_path
SpecApp == InitApp /\ [][NextApp]_vars


\* The rerun scenario: from the corridor layout, MaxRuns runs started and
\* stopped at any moment, with the generation that leaves the first row open
\* and the left clicks that designate the start and the end node again among
\* the cells of the first row beyond the first one
RowOpen == [n \in Node |-> n \notin FirstRow]
InitRerun == InitWith(Corridors, {"ascending"})
NextRerun ==
  \/ start_pathfinding
  \/ stop_pathfinding
  \/ JoinReturn
  \/ JoinTimeout
  \/ \E w \in Workers : WorkerStep(w)
  \/ \E node \in FirstRow \ {<<0, 0>>} : handle_grid_click(node, 1)
  \/ generate_walls(RowOpen)
SpecRerun == InitRerun /\ [][NextRerun]_vars


\* The busy scenario: from the corridor layout, AppRuns runs started, paused
\* and stopped at any moment, with the left clicks on the first row, the right
\* click and the drag on its middle cell, the generation that leaves the first
\* row open, and the clearing of the path and of the whole grid
NextBusy ==
  \/ app_start_pathfinding
  \/ toggle_pause
  \/ stop_pathfinding
  \/ JoinReturn
  \/ JoinTimeout
  \/ \E w \in Workers : WorkerStep(w)
  \/ \E node \in FirstRow : handle_grid_click(node, 1)
  \/ handle_grid_click(<<0, 1>>, 3)
  \/ handle_mouse_drag(<<0, 1>>)
  \/ handle_mouse_button_up
  \/ generate_walls(RowOpen)
  \/ clear_path
  \/ clear_all
SpecBusy == InitApp /\ [][NextBusy]_vars


\* PathfindingVisualizer.start_pathfinding: the guard, the flags and the state
\* under the lock, then self.clear_path(), which tests can_interact_with_grid()
\* on the flags just written, then the new thread
visualizer_start_pathfinding ==
  /\ ctl = "idle"
  /\ runs < MaxRuns
  /\ can_start_pathfinding
  /\ pathfinding_active' = TRUE
  /\ pathfinding_paused' = FALSE
  /\ pathfinding_completed' = FALSE
  /\ state' = "PATHFINDING"
  /\ IF ~can_interact_with_grid'
       THEN UNCHANGED <<color, distance, previous, visited, last_path_length>>
       ELSE /\ color' = clear_path_color
            /\ distance' = clear_path_distance
            /\ previous' = clear_path_previous
            /\ visited' = clear_path_visited
            /\ last_path_length' = 0
  /\ runs' = runs + 1
  /\ pathfinding_thread' = runs + 1
  /\ pc' = [pc EXCEPT ![runs + 1] = "init"]
  /\ UNCHANGED <<is_wall, neighbors, start_node, end_node, id, path_found, quit_requested,
                 ctl, localVars, obsVars>>
  /\ UNCHANGED <<argVars, drawing_walls, erasing_walls, carve, lockVars>>

\* `finally` of PathfindingVisualizer._run_pathfinding_thread: the flags and,
\* unless a quit is requested, self.state = "READY" under the lock; the thread
\* ends
visualizer_finally(w) ==
  /\ pc[w] = "finally"
  /\ pathfinding_completed' = TRUE
  /\ pathfinding_active' = FALSE
  /\ state' = IF ~quit_requested THEN "READY" ELSE state
  /\ pc' = [pc EXCEPT ![w] = "done"]
  /\ UNCHANGED <<gridVars, pathfinding_thread, pathfinding_paused, path_found, quit_requested,
                 last_path_length, ctlVars, localVars, obsVars>>
  /\ UNCHANGED <<argVars, drawing_walls, erasing_walls, carve, lockVars>>

\* a step of the thread PathfindingVisualizer.start_pathfinding creates: the
\* body of _run_pathfinding_thread, and its own `finally`
visualizer_worker_step(w) ==
  \/ pc[w] # "finally" /\ WorkerStep(w)
  \/ visualizer_finally(w)

\* The scenario of the runs the application starts: on the corridor layout,
\* MaxRuns runs started by PathfindingVisualizer.start_pathfinding, paused and
\* stopped at any moment
NextVisualizer ==
  \/ visualizer_start_pathfinding
  \/ toggle_pause
  \/ stop_pathfinding
  \/ JoinReturn
  \/ JoinTimeout
  \/ \E w \in Workers : visualizer_worker_step(w)
SpecVisualizer == InitApp /\ [][NextVisualizer]_vars

\* The setup scenario: from the corridor layout, the left clicks on the first
\* row, the generation that leaves the first row open, the clearing of the
\* whole grid, and AppRuns runs of the application started and stopped at any
\* moment
NextSetup ==
  \/ runs < AppRuns /\ visualizer_start_pathfinding
  \/ stop_pathfinding
  \/ JoinReturn
  \/ JoinTimeout
  \/ \E w \in Workers : visualizer_worker_step(w)
  \/ \E node \in FirstRow \ {<<0, 0>>} : handle_grid_click(node, 1)
  \/ generate_walls(RowOpen)
  \/ clear_all
SpecSetup == InitApp /\ [][NextSetup]_vars

\* The grid scenario: on any wall layout, Node.make_wall and Node.reset on any
\* node and Grid.set_neighbors, in any order
AnyWalls == {[walls |-> W, s |-> None, e |-> None] : W \in [Node -> BOOLEAN]}
InitGrid == InitWith(AnyWalls, {"ascending"})

\* Node.make_wall
make_wall(node) ==
  /\ is_wall' = [is_wall EXCEPT ![node] = TRUE]
  /\ color' = [color EXCEPT ![node] = WALL]
  /\ UNCHANGED <<distance, previous, visited, neighbors, start_node, end_node, id,
                 mgrVars, ctlVars, pc, localVars, obsVars, extVars>>

\* Node.reset
reset(node) ==
  /\ ResetNode(node)
  /\ color' = [color EXCEPT ![node] = NODE_DEFAULT]
  /\ UNCHANGED <<neighbors, start_node, end_node, id,
                 mgrVars, ctlVars, pc, localVars, obsVars, extVars>>

\* Grid.set_neighbors
grid_set_neighbors ==
  /\ neighbors' = set_neighbors(is_wall)
  /\ UNCHANGED <<is_wall, color, distance, previous, visited, start_node, end_node, id,
                 mgrVars, ctlVars, pc, localVars, obsVars, extVars>>

NextGrid ==
  \/ \E node \in Node : make_wall(node)
  \/ \E node \in Node : reset(node)
  \/ grid_set_neighbors
SpecGrid == InitGrid /\ [][NextGrid]_vars


\* ------------------------------------------------------------------ generator
\* WallGenerator._recursive_backtracker (MazeGenerator._recursive_backtracker is
\* the same code) on a grid of carve.rows x carve.cols nodes that generate_wall
\* has filled with walls.  carve.is_wall is Node.is_wall of that grid.
MazeDims == 3 .. MaxMazeDim
Cells(rows, cols) == (0 .. rows - 1) \X (0 .. cols - 1)

\* a start index that is left even
MiddleIndex(n) == n \div 2

\* start_row / start_col: the middle index, less one when it is even
backtracker_start(n) == IF (n \div 2) % 2 = 0 THEN (n \div 2) - 1 ELSE n \div 2

\* the state at the head of `while stack` on the first iteration
CarveInit(rows, cols) ==
  [phase |-> "carving", rows |-> rows, cols |-> cols,
   is_wall |-> [c \in Cells(rows, cols) |-> TRUE],
   stack |-> << <<backtracker_start(rows), backtracker_start(cols)>> >>,
   visited |-> {}, iterations |-> 0, openings |-> 0, walls |-> << >>]

carve_directions == << <<0, 2>>, <<2, 0>>, <<0, -2>>, <<-2, 0>> >>

\* a list `neighbors` that does not leave out the visited cells
carve_neighbors_revisiting(K, cur, vis) ==
  LET cand == [i \in 1 .. 4 |-> <<cur[1] + carve_directions[i][1],
                                  cur[2] + carve_directions[i][2],
                                  carve_directions[i][1], carve_directions[i][2]>>]
      ok(t) == /\ 1 <= t[1] /\ t[1] < K.rows - 1
               /\ 1 <= t[2] /\ t[2] < K.cols - 1
  IN  SelectSeq(cand, ok)

\* the list `neighbors` of one iteration: (new_row, new_col, dx, dy) for every
\* direction whose cell two steps away is inside the border and not visited
carve_neighbors(K, cur, vis) ==
  LET cand == [i \in 1 .. 4 |-> <<cur[1] + carve_directions[i][1],
                                  cur[2] + carve_directions[i][2],
                                  carve_directions[i][1], carve_directions[i][2]>>]
      ok(t) == /\ 1 <= t[1] /\ t[1] < K.rows - 1
               /\ 1 <= t[2] /\ t[2] < K.cols - 1
               /\ <<t[1], t[2]>> \notin vis
  IN  SelectSeq(cand, ok)

\* a wall cell taken at the neighbour itself, two steps away
WallAtNeighbor(cur, dx, dy) == <<cur[1] + dx, cur[2] + dy>>

\* (wall_row, wall_col): the cell midway between the current cell and the
\* chosen neighbour
wall_between(cur, dx, dy) == <<cur[1] + dx \div 2, cur[2] + dy \div 2>>

\* node.reset() for the node grid.get_node gives, if it gives one
CarveOpen(walls, c) == IF c \in DOMAIN walls THEN [walls EXCEPT ![c] = FALSE] ELSE walls

\* One iteration of `while stack`, then the loop test: the top of the stack is
\* visited and opened; random.choice picks one of `neighbors`, the wall between
\* is opened and the neighbour pushed, or the stack is popped
CarveStep ==
  /\ carve.phase = "carving"
  /\ LET cur == carve.stack[Len(carve.stack)]
         vis == carve.visited \cup {cur}
         opened == IF cur \in carve.visited THEN carve.is_wall ELSE CarveOpen(carve.is_wall, cur)
         nbrs == carve_neighbors(carve, cur, vis)
     IN  IF nbrs # << >>
           THEN \E i \in DOMAIN nbrs :
                  carve' = [carve EXCEPT
                    !.visited = vis,
                    !.is_wall = CarveOpen(opened, wall_between(cur, nbrs[i][3], nbrs[i][4])),
                    !.stack = Append(@, <<nbrs[i][1], nbrs[i][2]>>),
                    !.iterations = @ + 1]
           ELSE carve' = [carve EXCEPT
                    !.visited = vis,
                    !.is_wall = opened,
                    !.stack = SubSeq(@, 1, Len(@) - 1),
                    !.iterations = @ + 1,
                    !.phase = IF Len(carve.stack) = 1 THEN "carved" ELSE "carving"]
  /\ UNCHANGED <<gridVars, mgrVars, ctlVars, pc, localVars, obsVars, argVars, appVars, lockVars>>

\* The generator scenario: one call on a filled grid of every size from 3 x 3
\* to MaxMazeDim x MaxMazeDim, with every outcome of random.choice
InitMaze ==
  \E rows \in MazeDims, cols \in MazeDims :
    InitCarve({Blank}, {"ascending"}, CarveInit(rows, cols))
NextMaze == CarveStep
SpecMaze == InitMaze /\ [][NextMaze]_vars

\* The same call on a filled grid of every size from 1 x 1 on.  The loop is
\* sequential code of one thread: an iteration that can be taken is taken
InitAnySize ==
  \E rows \in 1 .. MaxMazeDim, cols \in 1 .. MaxMazeDim :
    InitCarve({Blank}, {"ascending"}, CarveInit(rows, cols))
FairMaze == InitAnySize /\ [][NextMaze]_vars /\ WF_vars(CarveStep)

\* MazeGenerator._prims_algorithm on a grid generate_maze has filled with walls.
\* The tuples (wall_row, wall_col, cell_row, cell_col) for the cells two steps
\* from `cell` in the order of the directions, the cell inside the border and,
\* where `only_walls`, still a wall
prim_walls(K, walls, cell, only_walls) ==
  LET cand == [i \in 1 .. 4 |-> <<cell[1] + carve_directions[i][1] \div 2,
                                  cell[2] + carve_directions[i][2] \div 2,
                                  cell[1] + carve_directions[i][1],
                                  cell[2] + carve_directions[i][2]>>]
      ok(t) == /\ 1 <= t[3] /\ t[3] < K.rows - 1
               /\ 1 <= t[4] /\ t[4] < K.cols - 1
               /\ (only_walls => (<<t[3], t[4]>> \in DOMAIN walls /\ walls[<<t[3], t[4]>>]))
  IN  SelectSeq(cand, ok)

\* `if wall_tuple not in walls: walls.append(wall_tuple)` for each tuple of new
RECURSIVE append_new(_, _)
append_new(ws, new) ==
  IF new = << >> THEN ws
  ELSE append_new(IF \E i \in DOMAIN ws : ws[i] = Head(new) THEN ws ELSE Append(ws, Head(new)),
                  Tail(new))

\* walls.remove(walls[i]): the tuples of the list are distinct
remove_at(ws, i) == SubSeq(ws, 1, i - 1) \o SubSeq(ws, i + 1, Len(ws))

\* the state at the head of `while walls` on the first iteration, the start
\* cell drawn being (start_row, start_col)
PrimInit(rows, cols, start_row, start_col) ==
  LET filled == [c \in Cells(rows, cols) |-> TRUE]
      K == [phase |-> "growing", rows |-> rows, cols |-> cols,
            is_wall |-> CarveOpen(filled, <<start_row, start_col>>),
            stack |-> << >>, visited |-> {}, iterations |-> 0, openings |-> 0,
            walls |-> << >>]
      ws == prim_walls(K, filled, <<start_row, start_col>>, FALSE)
  IN  [K EXCEPT !.walls = ws, !.phase = IF ws = << >> THEN "grown" ELSE "growing"]

\* an iteration that opens the wall and the cell whatever the cell is
PrimStepOpensAlways ==
  /\ carve.phase = "growing"
  /\ \E i \in DOMAIN carve.walls :
       LET t == carve.walls[i]
           rest == remove_at(carve.walls, i)
           cell == <<t[3], t[4]>>
           opened == CarveOpen(CarveOpen(carve.is_wall, <<t[1], t[2]>>), cell)
           ws == append_new(rest, prim_walls(carve, opened, cell, TRUE))
       IN  carve' = [carve EXCEPT !.is_wall = opened, !.walls = ws,
                                  !.phase = IF ws = << >> THEN "grown" ELSE "growing"]
  /\ UNCHANGED <<gridVars, mgrVars, ctlVars, pc, localVars, obsVars, argVars, appVars, lockVars>>

\* One iteration of `while walls`, then the loop test: random.choice picks a
\* tuple, which is removed; if its cell is still a wall, the wall between and
\* the cell are opened and the tuples of the cell's wall neighbours appended
PrimStep ==
  /\ carve.phase = "growing"
  /\ \E i \in DOMAIN carve.walls :
       LET t == carve.walls[i]
           rest == remove_at(carve.walls, i)
           cell == <<t[3], t[4]>>
       IN  IF cell \in DOMAIN carve.is_wall /\ carve.is_wall[cell]
             THEN LET opened == CarveOpen(CarveOpen(carve.is_wall, <<t[1], t[2]>>), cell)
                      ws == append_new(rest, prim_walls(carve, opened, cell, TRUE))
                  IN  carve' = [carve EXCEPT !.is_wall = opened, !.walls = ws,
                                             !.phase = IF ws = << >> THEN "grown" ELSE "growing"]
             ELSE carve' = [carve EXCEPT !.walls = rest,
                                         !.phase = IF rest = << >> THEN "grown" ELSE "growing"]
  /\ UNCHANGED <<gridVars, mgrVars, ctlVars, pc, localVars, obsVars, argVars, appVars, lockVars>>

\* The frontier-growth scenario: one call on a filled grid of every size from
\* 3 x 3 to MaxPrimDim x MaxPrimDim, with every outcome of random.randrange
\* (the odd indices from 1 to the last but one, excluded) and of random.choice.
\* The loop is sequential code of one thread
OddStarts(n) == {k \in 1 .. n - 2 : k % 2 = 1}
InitPrim ==
  \E rows \in 3 .. MaxPrimDim, cols \in 3 .. MaxPrimDim :
    \E start_row \in OddStarts(rows), start_col \in OddStarts(cols) :
      InitCarve({Blank}, {"ascending"}, PrimInit(rows, cols, start_row, start_col))
FairPrim == InitPrim /\ [][PrimStep]_vars /\ WF_vars(PrimStep)

\* WallGenerator._add_openings, run by generate_wall on the grid the carving
\* has left.  num_openings: max(20, rows * cols // 4)
num_openings(rows, cols) ==
  IF (rows * cols) \div 4 > 20 THEN (rows * cols) \div 4 ELSE 20

\* an iteration that draws its row and column from the whole grid
add_opening_anywhere ==
  /\ carve.phase \in {"carved", "opening"}
  /\ \E row \in 0 .. carve.rows - 1, col \in 0 .. carve.cols - 1 :
       carve' = [carve EXCEPT
         !.is_wall = CarveOpen(@, <<row, col>>),
         !.openings = @ + 1,
         !.phase = IF carve.openings + 1 = num_openings(carve.rows, carve.cols)
                     THEN "opened" ELSE "opening"]
  /\ UNCHANGED <<gridVars, mgrVars, ctlVars, pc, localVars, obsVars, argVars, appVars, lockVars>>

\* One iteration of `for _ in range(num_openings)`: random.randrange(1, rows - 1)
\* and random.randrange(1, cols - 1) draw a cell, which is reset (a wall becomes
\* a passage, a passage stays one)
add_opening ==
  /\ carve.phase \in {"carved", "opening"}
  /\ \E row \in 1 .. carve.rows - 2, col \in 1 .. carve.cols - 2 :
       carve' = [carve EXCEPT
         !.is_wall = CarveOpen(@, <<row, col>>),
         !.openings = @ + 1,
         !.phase = IF carve.openings + 1 = num_openings(carve.rows, carve.cols)
                     THEN "opened" ELSE "opening"]
  /\ UNCHANGED <<gridVars, mgrVars, ctlVars, pc, localVars, obsVars, argVars, appVars, lockVars>>

\* The scenario of generate_wall(grid, 'maze'): the fill, the carving and the
\* openings on a grid of every size from 3 x 3 to MaxWallDim x MaxWallDim, with
\* every outcome of random.choice and random.randrange
InitWalls ==
  \E rows \in 3 .. MaxWallDim, cols \in 3 .. MaxWallDim :
    InitCarve({Blank}, {"ascending"}, CarveInit(rows, cols))
NextWalls ==
  \/ CarveStep
  \/ add_opening
SpecWalls == InitWalls /\ [][NextWalls]_vars


\* ------------------------------------------------------------------ lock
\* PathfindingManager at the grain of its `with self.pathfinding_lock` blocks:
\* entering a block, its body with the exit, and every read or write of a flag
\* outside a block are steps of their own.  The search between two polls is
\* left out; a worker is in its loop ("running") until a poll of should_stop
\* answers True or the search ends.
MainThread == 0

\* one access to a flag by thread t, and whether t holds the lock meanwhile
Acc(t, flag, write) ==
  [thread |-> t, flag |-> flag, write |-> write, locked |-> t \in pathfinding_lock]

\* the reads of is_pathfinding_in_progress: `and` reads pathfinding_completed
\* only when pathfinding_active is True
ReadsInProgress(t) ==
  {Acc(t, "pathfinding_active", FALSE)}
    \cup (IF pathfinding_active THEN {Acc(t, "pathfinding_completed", FALSE)} ELSE {})

\* the reads of _should_stop: `or` reads pathfinding_active only when
\* quit_requested is False
ReadsShouldStop(t) ==
  {Acc(t, "quit_requested", FALSE)}
    \cup (IF quit_requested THEN {} ELSE {Acc(t, "pathfinding_active", FALSE)})

lockFrame == <<is_wall, neighbors, start_node, end_node, id, path_found, last_path_length,
               localVars, obsVars, argVars, appVars, carve>>

\* a start_pathfinding that enters the `with` whatever the guard answers
LockStartUnguarded ==
  /\ ctl = "idle"
  /\ runs < MaxRuns
  /\ access' = ReadsInProgress(MainThread)
  /\ ctl' = "start_lock"
  /\ UNCHANGED <<cellVars, mgrVars, runs, pc, pathfinding_lock, lockFrame>>

\* start_pathfinding up to the `with`: the guard
LockStartGuard ==
  /\ ctl = "idle"
  /\ runs < MaxRuns
  /\ access' = ReadsInProgress(MainThread)
  /\ ctl' = IF can_start_pathfinding THEN "start_lock" ELSE "idle"
  /\ UNCHANGED <<cellVars, mgrVars, runs, pc, pathfinding_lock, lockFrame>>

\* toggle_pause up to the `with`: the guard
LockToggleGuard ==
  /\ ctl = "idle"
  /\ access' = ReadsInProgress(MainThread)
  /\ ctl' = IF is_pathfinding_in_progress THEN "pause_lock" ELSE "idle"
  /\ UNCHANGED <<cellVars, mgrVars, runs, pc, pathfinding_lock, lockFrame>>

\* stop_pathfinding is called
LockStopCall ==
  /\ ctl = "idle"
  /\ access' = {}
  /\ ctl' = "stop_lock"
  /\ UNCHANGED <<cellVars, mgrVars, runs, pc, pathfinding_lock, lockFrame>>

\* request_quit: the write of quit_requested, the guard, the call of
\* stop_pathfinding
LockRequestQuit ==
  /\ ctl = "idle"
  /\ quit_requested' = TRUE
  /\ access' = {Acc(MainThread, "quit_requested", TRUE)} \cup ReadsInProgress(MainThread)
  /\ ctl' = IF is_pathfinding_in_progress THEN "stop_lock" ELSE "idle"
  /\ UNCHANGED <<cellVars, pathfinding_thread, pathfinding_active, pathfinding_paused,
                 pathfinding_completed, runs, pc, pathfinding_lock, lockFrame>>

\* `with self.pathfinding_lock:` is entered by the controller: the lock is free
LockAcquire ==
  /\ ctl \in {"start_lock", "pause_lock", "stop_lock"}
  /\ pathfinding_lock = {}
  /\ pathfinding_lock' = {MainThread}
  /\ access' = {}
  /\ ctl' = IF ctl = "start_lock" THEN "start_locked"
            ELSE IF ctl = "pause_lock" THEN "pause_locked" ELSE "stop_locked"
  /\ UNCHANGED <<cellVars, mgrVars, runs, pc, lockFrame>>

\* start_pathfinding from inside the `with`: the three flags, the exit of the
\* block, clear_path_callback() and the new thread
LockStartBody ==
  /\ ctl = "start_locked"
  /\ pathfinding_active' = TRUE
  /\ pathfinding_paused' = FALSE
  /\ pathfinding_completed' = FALSE
  /\ access' = {Acc(MainThread, "pathfinding_active", TRUE),
                Acc(MainThread, "pathfinding_paused", TRUE),
                Acc(MainThread, "pathfinding_completed", TRUE)}
  /\ pathfinding_lock' = {}
  /\ color' = clear_path_color
  /\ distance' = clear_path_distance
  /\ previous' = clear_path_previous
  /\ visited' = clear_path_visited
  /\ runs' = runs + 1
  /\ pathfinding_thread' = runs + 1
  /\ pc' = [pc EXCEPT ![runs + 1] = "running"]
  /\ ctl' = "idle"
  /\ UNCHANGED <<quit_requested, lockFrame>>

\* toggle_pause from inside the `with`
LockToggleBody ==
  /\ ctl = "pause_locked"
  /\ pathfinding_paused' = ~pathfinding_paused
  /\ access' = {Acc(MainThread, "pathfinding_paused", FALSE),
                Acc(MainThread, "pathfinding_paused", TRUE)}
  /\ pathfinding_lock' = {}
  /\ ctl' = "idle"
  /\ UNCHANGED <<cellVars, pathfinding_thread, pathfinding_active, pathfinding_completed,
                 quit_requested, runs, pc, lockFrame>>

\* stop_pathfinding from inside the `with`, then the test before the join
LockStopBody ==
  /\ ctl = "stop_locked"
  /\ pathfinding_active' = FALSE
  /\ pathfinding_completed' = TRUE
  /\ access' = {Acc(MainThread, "pathfinding_active", TRUE),
                Acc(MainThread, "pathfinding_completed", TRUE)}
  /\ pathfinding_lock' = {}
  /\ ctl' = IF pathfinding_thread # 0 /\ is_alive(pathfinding_thread) THEN "joining" ELSE "idle"
  /\ UNCHANGED <<cellVars, pathfinding_thread, pathfinding_paused, quit_requested, runs, pc,
                 lockFrame>>

\* a poll of _should_stop by worker w, in dijkstra, in reconstruct_path or
\* after dijkstra: on True the worker leaves for `finally`
LockShouldStop(w) ==
  /\ pc[w] = "running"
  /\ access' = ReadsShouldStop(w)
  /\ pc' = [pc EXCEPT ![w] = IF should_stop THEN "finally_lock" ELSE "running"]
  /\ UNCHANGED <<cellVars, mgrVars, ctlVars, pathfinding_lock, lockFrame>>

\* a poll of _should_pause by worker w
LockShouldPause(w) ==
  /\ pc[w] = "running"
  /\ access' = {Acc(w, "pathfinding_paused", FALSE)}
  /\ UNCHANGED <<cellVars, mgrVars, ctlVars, pc, pathfinding_lock, lockFrame>>

\* the search and the reconstruction of worker w end
LockRunEnds(w) ==
  /\ pc[w] = "running"
  /\ access' = {}
  /\ pc' = [pc EXCEPT ![w] = "finally_lock"]
  /\ UNCHANGED <<cellVars, mgrVars, ctlVars, pathfinding_lock, lockFrame>>

\* `with self.pathfinding_lock:` of `finally` is entered by worker w
LockFinallyAcquire(w) ==
  /\ pc[w] = "finally_lock"
  /\ pathfinding_lock = {}
  /\ pathfinding_lock' = {w}
  /\ access' = {}
  /\ pc' = [pc EXCEPT ![w] = "finally_locked"]
  /\ UNCHANGED <<cellVars, mgrVars, ctlVars, lockFrame>>

\* `finally` from inside the `with`; the thread ends
LockFinallyBody(w) ==
  /\ pc[w] = "finally_locked"
  /\ pathfinding_completed' = TRUE
  /\ pathfinding_active' = FALSE
  /\ access' = {Acc(w, "pathfinding_completed", TRUE), Acc(w, "pathfinding_active", TRUE)}
  /\ pathfinding_lock' = {}
  /\ pc' = [pc EXCEPT ![w] = "done"]
  /\ UNCHANGED <<cellVars, pathfinding_thread, pathfinding_paused, quit_requested, ctlVars,
                 lockFrame>>

NextLock ==
  \/ LockStartGuard
  \/ LockToggleGuard
  \/ LockStopCall
  \/ LockRequestQuit
  \/ LockAcquire
  \/ LockStartBody
  \/ LockToggleBody
  \/ LockStopBody
  \/ JoinReturn
  \/ JoinTimeout
  \/ \E w \in Workers : LockShouldStop(w)
  \/ \E w \in Workers : LockShouldPause(w)
  \/ \E w \in Workers : LockRunEnds(w)
  \/ \E w \in Workers : LockFinallyAcquire(w)
  \/ \E w \in Workers : LockFinallyBody(w)

\* the corridor layout, the grid with no start and no end node, and the grid
\* with a start node only
LockLayouts == Corridors \cup {Blank, [Blank EXCEPT !.s = <<0, 0>>]}
InitLock == InitWith(LockLayouts, {"ascending"})
SpecLock == InitLock /\ [][NextLock]_vars


\* ------------------------------------------------------------------ reference
\* Cardinal adjacency and graph distance over the non-wall nodes, defined from
\* the coordinates alone
CardinalAdjacent(a, b) ==
  \/ a[1] = b[1] /\ (a[2] = b[2] + 1 \/ b[2] = a[2] + 1)
  \/ a[2] = b[2] /\ (a[1] = b[1] + 1 \/ b[1] = a[1] + 1)

AdjacentOpen(walls, m) == {n \in Node : ~walls[n] /\ CardinalAdjacent(m, n)}

\* the nodes within one more step of the nodes of B
Grow(walls, B) == UNION {{m} \cup AdjacentOpen(walls, m) : m \in B}

\* the number of steps of a shortest route from the nodes of B to e, counted
\* from k; Inf when there is none
RECURSIVE StepsFrom(_, _, _, _)
StepsFrom(walls, B, e, k) ==
  IF e \in B THEN k
  ELSE IF k >= NumCells THEN Inf
  ELSE StepsFrom(walls, Grow(walls, B), e, k + 1)

GraphDistance(walls, s, e) == StepsFrom(walls, {s}, e, 0)

Solvable == GraphDistance(is_wall, start_node, end_node) # Inf

\* The run of dijkstra and reconstruct_path with nothing else touching the grid
\* and every poll answering False: the iterations of the loop from the state
\* the setup leaves, then the backward walk
RECURSIVE RunLoop(_, _, _, _, _)
RunLoop(S, s, e, ids, ord) ==
  LET R == Iteration(S, s, e, ids)
      ord2 == IF R.node = None THEN ord ELSE Append(ord, R.node)
  IN  IF R.ret = "found" THEN [found |-> TRUE, st |-> R.st, order |-> ord2]
      ELSE IF R.st.pq = << >> THEN [found |-> FALSE, st |-> R.st, order |-> ord2]
      ELSE RunLoop(R.st, s, e, ids, ord2)

UninterruptedRun(walls, s, e, ids) ==
  LET D == RunLoop(SearchInit(walls, LayoutColor(walls, s, e), s, e, ids), s, e, ids, << >>)
      W == IF D.found
             THEN WalkBack(D.st.previous, D.st.color, e, << >>, NumCells).nodes
             ELSE << >>
  IN  [found |-> D.found, order |-> D.order, distance |-> D.st.distance,
       previous |-> D.st.previous, path |-> Reverse(W), length |-> Len(W)]

\* a worker that is inside dijkstra or reconstruct_path
Searching == {"init", "check1", "pause", "check2", "pop"}
Reconstructing == {"walk", "rcheck1", "rpause", "rcheck2", "mark"}
Executing(w) == pc[w] \in Searching \cup Reconstructing

\* ------------------------------------------------------------------ library
\* Pathfinder.dijkstra called directly by one thread with the default
\* should_pause and should_stop (`lambda: False`): the whole call is one step.
\* start[Caller] and end[Caller] hold the arguments of the latest call,
\* dijkstra_result[Caller] the value it returned and order[Caller] the nodes the
\* latest search finalized.
Caller == 1

\* a check of the arguments placed after the reset loop
dijkstra_refuses_after_reset ==
  /\ dijkstra_result' = [dijkstra_result EXCEPT ![Caller] = FALSE]
  /\ distance' = [n \in Node |-> Inf]
  /\ previous' = [n \in Node |-> None]
  /\ visited' = [n \in Node |-> FALSE]
  /\ UNCHANGED <<is_wall, color, neighbors, order>>

\* `if not start or not end: return False`
dijkstra_refuses ==
  /\ dijkstra_result' = [dijkstra_result EXCEPT ![Caller] = FALSE]
  /\ UNCHANGED <<cellVars, order>>

\* Pathfinder.dijkstra(grid, s, e)
dijkstra(s, e) ==
  /\ start' = [start EXCEPT ![Caller] = s]
  /\ end' = [end EXCEPT ![Caller] = e]
  /\ IF s = None \/ e = None
       THEN dijkstra_refuses
       ELSE LET D == RunLoop(SearchInit(is_wall, color, s, e, id), s, e, id, << >>)
            IN  /\ distance' = D.st.distance
                /\ previous' = D.st.previous
                /\ visited' = D.st.visited
                /\ color' = D.st.color
                /\ neighbors' = D.st.neighbors
                /\ dijkstra_result' = [dijkstra_result EXCEPT ![Caller] = D.found]
                /\ order' = [order EXCEPT ![Caller] = D.order]
                /\ UNCHANGED is_wall
  /\ UNCHANGED <<start_node, end_node, id, mgrVars, ctlVars, pc, pq, unvisited_set, path_length,
                 path_todo, path_cells, result, signalled, saw_stop, waited, appVars, carve,
                 lockVars>>

\* The library scenario: on the small layouts, and on the same grids with the
\* start node, the end node or both not designated, calls of dijkstra with the
\* grid's start and end node or with None in their place, and the clearings
Undesignated(L) ==
  {L, [L EXCEPT !.s = None], [L EXCEPT !.e = None], [L EXCEPT !.s = None, !.e = None]}
CallLayouts == UNION {Undesignated(L) : L \in SmallLayouts}
InitCall == InitWith(CallLayouts, {"ascending"})
NextCall ==
  \/ \E s \in {start_node, None}, e \in {end_node, None} : dijkstra(s, e)
  \/ clear_path
  \/ clear_all
SpecCall == InitCall /\ [][NextCall]_vars


\* ------------------------------------------------------------------ claims

\* C1: for every solvable configuration the path length that reconstruct_path
\* returns after a successful dijkstra equals the graph distance in steps
\* between start and goal.
C1_LengthIsGraphDistance ==
  \A w \in Workers :
    (pc[w] = "set_len" /\ dijkstra_result[w] /\ ~saw_stop[w] /\ ~signalled[w])
      => path_length[w] = GraphDistance(is_wall, start_node, end_node)

\* C2: when the goal is not reachable from the start, no worker gets True from
\* dijkstra, no worker enters reconstruct_path, every run that is not cancelled
\* ends as NoPath, and the status keeps path_found = false, last_path_length = 0.
C2_UnreachableIsNoPath ==
  ~Solvable =>
    /\ path_found = FALSE
    /\ last_path_length = 0
    /\ \A w \in Workers :
         /\ ~dijkstra_result[w]
         /\ pc[w] \notin Reconstructing
         /\ result[w] # "PathFound"
         /\ (pc[w] = "done" /\ ~saw_stop[w] /\ result[w] # "Error") => result[w] = "NoPath"

\* C2 witness: a run on a grid with an unreachable goal, never signalled to stop,
\* has ended as NoPath
C2_Witness ==
  /\ ~Solvable
  /\ \E w \in Workers :
       pc[w] = "done" /\ result[w] = "NoPath" /\ ~signalled[w] /\ Len(order[w]) >= 2

\* C3: at most one worker is inside dijkstra or reconstruct_path at any time.
C3_OneWorkerAtATime ==
  Cardinality({w \in Workers : Executing(w)}) <= 1

\* C4: when should_stop() answers True at one of the two `if should_stop()`
\* check points of the search loop, dijkstra returns in that step with every
\* node unchanged; and a worker that has seen a stop never pops again and never
\* changes a node again.
C4_StopPollEndsSearch ==
  [][\A w \in Workers :
       /\ ((PollStop1(w) \/ PollStop2(w)) /\ should_stop)
            => (pc'[w] = "post" /\ ~dijkstra_result'[w] /\ UNCHANGED cellVars)
       /\ (saw_stop[w] /\ WorkerStep(w))
            => (UNCHANGED cellVars /\ pc'[w] \notin Searching)]_vars

\* C4 witness: a worker has returned from dijkstra on a stop poll and nodes
\* coloured by the search are still coloured
C4_Witness ==
  \E w \in Workers :
    /\ pc[w] = "post" /\ saw_stop[w]
    /\ \E n \in Node : color[n] \in {NODE_VISITED, NODE_NEIGHBOR}

\* C5: once a stop or quit is requested while a worker thread is alive, that
\* worker eventually ends, whatever the pause flag is.
C5_SignalledWorkerEnds ==
  \A w \in Workers : signalled[w] ~> (pc[w] = "done")

\* C6: a poll of a pause loop that finds the run paused and not stopped leaves
\* the worker where it is and changes no node, no queue, no eligibility set and
\* no pending path; across any step that leaves a worker in its pause loop that
\* worker's queue, eligibility set and pending path are what they were; and
\* while the run is paused, not stopped, and no other worker is executing, no
\* step changes a node.
C6_PausedFrameFrozen ==
  [][\A w \in Workers :
       /\ ((PauseLoop(w) \/ RPauseLoop(w)) /\ should_pause /\ ~should_stop)
            => /\ pc'[w] = pc[w]
               /\ UNCHANGED <<cellVars, pq, unvisited_set, path_todo, order, path_cells>>
       /\ (pc[w] \in {"pause", "rpause"} /\ pc'[w] = pc[w])
            => /\ pq'[w] = pq[w]
               /\ unvisited_set'[w] = unvisited_set[w]
               /\ path_todo'[w] = path_todo[w]
       /\ ( /\ pc[w] \in {"pause", "rpause"} /\ pc'[w] = pc[w]
            /\ should_pause /\ ~should_stop
            /\ \A v \in Workers \ {w} : ~Executing(v) )
            => UNCHANGED cellVars]_vars

\* C6 witness: a worker has idled in the pause loop of the search with the run
\* paused and not stopped, holding a queue and nodes it has coloured
C6_Witness ==
  \E w \in Workers :
    /\ pc[w] = "pause" /\ waited[w]
    /\ should_pause /\ ~should_stop
    /\ pq[w] # << >>
    /\ \E n \in Node : color[n] = NODE_NEIGHBOR

\* C7: a run that was paused and resumed and never cancelled delivers what the
\* uninterrupted run on the same grid delivers: the same result of the search,
\* visitation order, distances, predecessor links, path and path length.
C7_PausedRunMatchesUninterrupted ==
  \A w \in Workers :
    (pc[w] = "set_len" /\ waited[w] /\ ~signalled[w] /\ ~saw_stop[w]) =>
      LET U == UninterruptedRun(is_wall, start_node, end_node, id)
      IN  /\ dijkstra_result[w] = U.found
          /\ order[w] = U.order
          /\ distance = U.distance
          /\ previous = U.previous
          /\ path_cells[w] = U.path
          /\ path_length[w] = U.length

\* a run that ended as found or no-path and was never asked to stop
Uncancelled(w) ==
  /\ pc[w] = "done"
  /\ ~signalled[w] /\ ~saw_stop[w]
  /\ result[w] \in {"PathFound", "NoPath"}

\* C8: two uncancelled runs on the same walls, start, goal and node identities
\* have the same visitation order, the same outcome and the same path.
C8_UncancelledRunsAgree ==
  \A v, w \in Workers :
    (Uncancelled(v) /\ Uncancelled(w)) =>
      /\ order[v] = order[w]
      /\ result[v] = result[w]
      /\ path_cells[v] = path_cells[w]

\* C9: an exception inside the worker's `try` block passes control to `finally`;
\* every step that ends a worker thread leaves pathfinding_completed true and
\* pathfinding_active false; and the manager is in progress only while the
\* thread it holds is alive.
C9_WorkerAlwaysReleases ==
  /\ [](is_pathfinding_in_progress =>
          (pathfinding_thread # 0 /\ is_alive(pathfinding_thread)))
  /\ [][\A w \in Workers :
          /\ Raise(w) => (pc'[w] = "finally" /\ UNCHANGED cellVars)
          /\ (pc[w] # "done" /\ pc'[w] = "done")
               => (pathfinding_completed' /\ ~pathfinding_active'
                     /\ ~is_pathfinding_in_progress')]_vars

\* C9 witness: a run that raised has ended and the manager is not in progress
C9_Witness ==
  \E w \in Workers :
    /\ pc[w] = "done" /\ result[w] = "Error"
    /\ pathfinding_completed /\ ~pathfinding_active
    /\ can_start_pathfinding

C11_StartGoalNeverWalls ==
  /\ start_node # None => ~is_wall[start_node]
  /\ end_node # None => ~is_wall[end_node]
  /\ (start_node # None /\ end_node # None) => start_node # end_node

\* both designated, walls drawn around them, and a drag in progress
C11_Witness ==
  /\ start_node # None
  /\ end_node # None
  /\ drawing_walls
  /\ Cardinality({n \in Node : is_wall[n]}) = NumCells - 2

\* C12: whenever the search loop reads a cell's neighbour list (the cell it has
\* just finalized, other than the goal), the list equals the adjacency derived
\* from the obstacle layout at that moment.
C12_NeighborsMatchLayout ==
  [][\A w \in Workers :
       (pc[w] = "pop" /\ order'[w] # order[w] /\ Head(pq[w])[3] # end[w])
         => neighbors[Head(pq[w])[3]] = NeighborsOf(is_wall, Head(pq[w])[3])]_vars

\* C13: after Grid.set_neighbors() every cell's neighbour list is exactly the
\* in-bounds non-obstacle up/down/left/right cells; once a passage cell has been
\* made an obstacle and set_neighbors() has run, no list contains it; once it
\* has been made a passage again and set_neighbors() has run, every list equals
\* what it was before the round trip.
C13_SetNeighborsExact ==
  [][grid_set_neighbors =>
       /\ \A n \in Node : /\ Elements(neighbors'[n]) = AdjacentOpen(is_wall', n)
                           /\ NoRepeat(neighbors'[n])
       /\ \A m \in Node : ~is_wall'[m] =>
            LET closed == [is_wall' EXCEPT ![m] = TRUE]
                opened == [closed EXCEPT ![m] = FALSE]
            IN  /\ \A n \in Node : m \notin Elements(set_neighbors(closed)[n])
                /\ set_neighbors(opened) = neighbors']_vars

\* set_neighbors has run on a layout with a wall between passages: the list of
\* the corner cell holds the cell below it and not the wall beside it
C13_Witness ==
  /\ neighbors = set_neighbors(is_wall)
  /\ is_wall[<<0, 1>>]
  /\ color[<<0, 1>>] = WALL
  /\ ~is_wall[<<0, 0>>] /\ ~is_wall[<<1, 1>>] /\ ~is_wall[<<0, 2>>]
  /\ neighbors[<<0, 0>>] = << <<1, 0>> >>

\* the passage cells of the generator's grid, and the passage cells that can be
\* reached from the cells of B by cardinal steps over passage cells
Passages(K) == {c \in DOMAIN K.is_wall : ~K.is_wall[c]}
RECURSIVE PassageReach(_, _)
PassageReach(K, B) ==
  LET B2 == B \cup {c \in Passages(K) : \E b \in B : CardinalAdjacent(b, c)}
  IN  IF B2 = B THEN B ELSE PassageReach(K, B2)

\* C14: after carving with backtracking has run, before the openings step, on
\* any grid with at least 3 rows and 3 columns and for every sequence of random
\* choices, every odd-row odd-column cell with 1 <= row < rows - 1 and
\* 1 <= col < cols - 1 is a passage and all passage cells are mutually reachable.
C14_LatticeCarvedAndConnected ==
  carve.phase = "carved" =>
    /\ \A c \in DOMAIN carve.is_wall :
         (/\ c[1] % 2 = 1 /\ c[2] % 2 = 1
          /\ 1 <= c[1] /\ c[1] < carve.rows - 1
          /\ 1 <= c[2] /\ c[2] < carve.cols - 1) => ~carve.is_wall[c]
    /\ \A c \in Passages(carve) : PassageReach(carve, {c}) = Passages(carve)

\* the carving has ended on a grid with nine lattice cells
C14_Witness ==
  /\ carve.phase = "carved"
  /\ carve.rows = 7
  /\ carve.cols = 7
  /\ Cardinality(carve.visited) = 9

\* C15: after the carving, before the openings step, the passages form a tree:
\* the number of pairs of adjacent passage cells is the number of passage
\* cells minus one.
C15_PassagesFormTree ==
  carve.phase = "carved" =>
    Cardinality({p \in Passages(carve) \X Passages(carve) : CardinalAdjacent(p[1], p[2])})
      = 2 * (Cardinality(Passages(carve)) - 1)

\* the carving has ended on a grid whose lattice has a cycle (2 x 3 cells)
C15_Witness ==
  /\ carve.phase = "carved"
  /\ carve.rows = 5
  /\ carve.cols = 7
  /\ Cardinality(Passages(carve)) = 11

SignalFlags == {"pathfinding_paused", "pathfinding_active", "pathfinding_completed"}

\* C17: every read and every write of the pause, active/cancel and completed
\* flags, by the controller in start / toggle / stop / quit and by the worker in
\* its polls _should_pause / _should_stop, is performed while holding
\* pathfinding_lock.
C17_FlagAccessUnderLock ==
  \A a \in access : a.flag \in SignalFlags => a.locked

\* C18: start_pathfinding called while a run is in progress, or while the start
\* or the goal is unset, is rejected synchronously: the call returns having
\* changed no flag, touched no cell and created no worker.
C18_RejectedStartChangesNothing ==
  [][(LockStartGuard /\ (is_pathfinding_in_progress \/ start_node = None \/ end_node = None))
       => /\ ctl' = "idle"
          /\ UNCHANGED <<mgrVars, gridVars, pc, runs, pathfinding_lock>>]_vars

\* start_pathfinding has just returned from its guard while a run is in
\* progress: the worker is alive and the flags are as the start left them
C18_Witness ==
  /\ ctl = "idle"
  /\ is_pathfinding_in_progress
  /\ access = ReadsInProgress(MainThread)
  /\ \E w \in Workers : pc[w] = "running"

\* C19: a run in which the cancellation is observed, during the search or
\* during the reconstruction, ends as Cancelled: it does not assign
\* last_path_length (the assignment made, the worker is at "set_found") and does
\* not set path_found, so it ends neither as PathFound nor as NoPath.
C19_CancelledRunReportsNothing ==
  \A w \in Workers :
    saw_stop[w] => (pc[w] # "set_found" /\ result[w] \notin {"PathFound", "NoPath"})

\* C20: Grid.clear_path() leaves every obstacle cell, the start cell, the goal
\* cell and the start/goal references unchanged and sets every other cell to
\* default colour, distance infinity, no predecessor and visited false;
\* applying it twice gives the same grid as applying it once.
C20_ClearPathFrame ==
  [][(clear_path /\ can_interact_with_grid) =>
       /\ start_node' = start_node
       /\ end_node' = end_node
       /\ is_wall' = is_wall
       /\ neighbors' = neighbors
       /\ \A n \in Node :
            IF is_wall[n] \/ n = start_node \/ n = end_node
              THEN /\ color'[n] = color[n]
                   /\ distance'[n] = distance[n]
                   /\ previous'[n] = previous[n]
                   /\ visited'[n] = visited[n]
              ELSE /\ color'[n] = NODE_DEFAULT
                   /\ distance'[n] = Inf
                   /\ previous'[n] = None
                   /\ visited'[n] = FALSE
       /\ clear_path_color' = color'
       /\ clear_path_distance' = distance'
       /\ clear_path_previous' = previous'
       /\ clear_path_visited' = visited']_vars

\* the path of a finished run has been cleared: its first cell is back to the
\* default colour while the start node keeps the distance and the visited mark
\* the search gave it
C20_Witness ==
  /\ start_node # None
  /\ end_node # None
  /\ distance[start_node] = 0
  /\ visited[start_node]
  /\ last_path_length = 0
  /\ \E w \in Workers :
       /\ result[w] = "PathFound"
       /\ pc[w] = "done"
       /\ path_cells[w] # << >>
       /\ ~is_wall[path_cells[w][1]]
       /\ color[path_cells[w][1]] = NODE_DEFAULT
       /\ distance[path_cells[w][1]] = Inf

\* C21: after a completed run, Grid.clear_path() (the clear_path_callback of
\* the next start) followed by a second run from the same start and goal on the
\* same obstacle layout gives the same result, the same finalization order, the
\* same path cells and the same path length as the first run on the freshly
\* built grid, which are those of the uninterrupted run on that grid.
C21_RerunAfterClearMatchesFirst ==
  \A w \in Workers :
    ( /\ pc[w] = "set_len" /\ ~signalled[w] /\ ~saw_stop[w]
      /\ \A v \in 1 .. w - 1 : Uncancelled(v) ) =>
      LET U == UninterruptedRun(is_wall, start_node, end_node, id)
      IN  /\ dijkstra_result[w] = U.found
          /\ order[w] = U.order
          /\ path_cells[w] = U.path
          /\ path_length[w] = U.length
          /\ \A v \in 1 .. w - 1 :
               /\ (result[v] = "PathFound") = dijkstra_result[w]
               /\ order[v] = order[w]
               /\ path_cells[v] = path_cells[w]

\* the second run has found the goal again and coloured a path, after a first
\* run that ended as PathFound and the clearing of its path
C21_Witness ==
  /\ pc[2] = "set_len" /\ ~signalled[2] /\ ~saw_stop[2]
  /\ Uncancelled(1)
  /\ result[1] = "PathFound"
  /\ dijkstra_result[2]
  /\ path_length[2] >= 1
  /\ path_cells[2] # << >>

\* C22: Pathfinder.dijkstra called with the start or the goal missing returns
\* False and changes no cell's distance, predecessor, visited flag, colour or
\* neighbour list.
C22_MissingEndpointRefused ==
  [][\A s, e \in Node \cup {None} :
       (dijkstra(s, e) /\ (s = None \/ e = None)) =>
          /\ ~dijkstra_result'[Caller]
          /\ UNCHANGED <<cellVars, start_node, end_node>>]_vars

\* the latest call had no goal and returned False on a grid that still shows
\* the search of an earlier call: finalized nodes, distances and links
C22_Witness ==
  /\ start[Caller] # None
  /\ end[Caller] = None
  /\ ~dijkstra_result[Caller]
  /\ \E n \in Node : visited[n] /\ color[n] = NODE_VISITED /\ distance[n] = 1
  /\ \E n \in Node : previous[n] # None

C24_ClearAllResetsEverything ==
  [][(clear_all /\ can_interact_with_grid) =>
       /\ \A n \in Node :
            /\ ~is_wall'[n]
            /\ color'[n] = NODE_DEFAULT
            /\ distance'[n] = Inf
            /\ previous'[n] = None
            /\ ~visited'[n]
       /\ start_node' = None
       /\ end_node' = None]_vars

\* the grid of a search that found its goal has been cleared: no wall, no
\* designated node, no mark of the search, and the neighbour lists it computed
C24_Witness ==
  /\ dijkstra_result[Caller]
  /\ Len(order[Caller]) >= 2
  /\ start_node = None
  /\ end_node = None
  /\ \A n \in Node : ~is_wall[n] /\ color[n] = NODE_DEFAULT /\ distance[n] = Inf /\ ~visited[n]
  /\ \E n \in Node : neighbors[n] # << >>

\* C25: the outcome of search and reconstruction (the value dijkstra returns,
\* the node it finalizes, distances, predecessors, the queue, and the path and
\* path length of reconstruct_path) does not depend on any cell's colour: the
\* step of a worker gives the same outcome on the grid as it is and on the
\* same grid with the colours of its layout.
C25_OutcomeIgnoresColour ==
  LET layout == LayoutColor(is_wall, start_node, end_node)
  IN  \A w \in Workers :
        /\ pc[w] = "pop" =>
             LET S == [distance |-> distance, previous |-> previous, visited |-> visited,
                       color |-> color, neighbors |-> neighbors, pq |-> pq[w],
                       unvisited |-> unvisited_set[w]]
                 A == Iteration(S, start[w], end[w], id)
                 B == Iteration([S EXCEPT !.color = layout], start[w], end[w], id)
             IN  /\ A.ret = B.ret
                 /\ A.node = B.node
                 /\ A.st.distance = B.st.distance
                 /\ A.st.previous = B.st.previous
                 /\ A.st.visited = B.st.visited
                 /\ A.st.pq = B.st.pq
        /\ (pc[w] = "walk" /\ end_node # None) =>
             WalkBack(previous, color, end_node, << >>, NumCells)
               = WalkBack(previous, layout, end_node, << >>, NumCells)

\* the positions of a worker inside the loop of dijkstra
InLoop == {"check1", "pause", "check2", "pop"}

\* C26: at every point of a search run every finalized (visited) cell has a
\* distance equal to its true shortest-path distance from the start over
\* non-obstacle cells and the cells have been finalized in non-decreasing order
\* of distance; and the distance of a finalized cell does not change while the
\* search goes on.
C26_FinalizedDistancesAreShortest ==
  /\ [](\A w \in Workers : pc[w] \in InLoop =>
          /\ \A n \in Node : visited[n] => distance[n] = GraphDistance(is_wall, start[w], n)
          /\ \A i, j \in DOMAIN order[w] :
               i < j => distance[order[w][i]] <= distance[order[w][j]])
  /\ [][\A w \in Workers : (pc[w] \in InLoop /\ pc'[w] \in InLoop \cup {"post"}) =>
          \A n \in Node : visited[n] => (visited'[n] /\ distance'[n] = distance[n])]_vars

\* C27: throughout search and reconstruction the start cell keeps the Start
\* marker and the goal cell keeps the Goal marker; and when the goal is popped
\* dijkstra returns True without recolouring it or relaxing its neighbours.
C27_EndpointsKeepMarkers ==
  /\ [](/\ start_node # None => color[start_node] = NODE_START
        /\ end_node # None => color[end_node] = NODE_END)
  /\ [][\A w \in Workers :
          (PopStep(w) /\ Head(pq[w])[3] = end[w] /\ Head(pq[w])[3] \in unvisited_set[w]) =>
             /\ dijkstra_result'[w]
             /\ pc'[w] = "post"
             /\ color' = color
             /\ distance' = distance
             /\ previous' = previous]_vars

\* the positions of a worker inside the `for` loop of reconstruct_path
InPathLoop == {"rcheck1", "rpause", "rcheck2", "mark"}

\* C28: reconstruct_path colours the interior path cells Path one at a time in
\* start-to-goal order, each after a poll of should_stop; at every moment the
\* Path-coloured cells are the cells coloured so far, a prefix of the path
\* counted from the start side; and once the worker has seen should_stop answer
\* True it colours no further cell.
C28_PathColouredFromStart ==
  /\ [](\A w \in Workers : pc[w] \in InPathLoop =>
          LET path == path_cells[w] \o path_todo[w]
          IN  /\ {n \in Node : color[n] = NODE_PATH} = Elements(path_cells[w])
              /\ path # << >>
              /\ CardinalAdjacent(start_node, path[1])
              /\ CardinalAdjacent(path[Len(path)], end_node)
              /\ \A i \in 1 .. Len(path) - 1 : CardinalAdjacent(path[i], path[i + 1]))
  /\ [][\A w \in Workers :
          /\ (pc[w] \in InPathLoop /\ WorkerStep(w) /\ color' # color) =>
               /\ pc[w] = "mark"
               /\ color' = [color EXCEPT ![Head(path_todo[w])] = NODE_PATH]
          /\ (pc[w] \in {"rcheck1", "rcheck2"} /\ WorkerStep(w) /\ should_stop) =>
               (pc'[w] = "set_len" /\ color' = color)
          /\ (saw_stop[w] /\ WorkerStep(w)) => color' = color]_vars

\* an edit intent of the controller: a click, a drag, the generation of walls,
\* the clearing of the path or of the whole grid
EditIntent ==
  \/ \E node \in FirstRow, button \in {1, 3} : handle_grid_click(node, button)
  \/ \E node \in FirstRow : handle_mouse_drag(node)
  \/ generate_walls(RowOpen)
  \/ clear_path
  \/ clear_all

\* C29: while a run is in progress (running or paused) every grid-edit intent
\* of the controller leaves the obstacle layout, the start and goal references
\* and every cell unchanged; and no step of a worker changes an obstacle flag
\* or a reference.
C29_EditsRefusedDuringRun ==
  [][/\ (is_pathfinding_in_progress /\ EditIntent) =>
          UNCHANGED <<gridVars, state, drawing_walls, erasing_walls, last_path_length>>
     /\ \A w \in Workers :
          WorkerStep(w) => UNCHANGED <<is_wall, start_node, end_node>>]_vars

\* a run is under way and paused, its worker idles in the pause loop with
\* cells it has coloured, and a wall drag begun before the run is still held
C29_Witness ==
  /\ is_pathfinding_in_progress
  /\ pathfinding_paused
  /\ drawing_walls
  /\ \E w \in Workers : pc[w] = "pause" /\ waited[w]
  /\ \E n \in Node : color[n] = NODE_NEIGHBOR

\* C30: when a thread is created for a run that follows an earlier one, every
\* node that is not a wall, the start node or the end node is in the state
\* Node.reset() leaves, and last_path_length is 0
C30_PathClearedBeforeThreadStart ==
  [][(runs >= 1 /\ runs' = runs + 1) =>
       /\ \A n \in Node :
            (~is_wall[n] /\ n # start_node /\ n # end_node) =>
              /\ color'[n] = NODE_DEFAULT
              /\ distance'[n] = Inf
              /\ previous'[n] = None
              /\ ~visited'[n]
       /\ last_path_length' = 0]_vars


\* the cells of the first and the last row and column of the generator's grid
BorderCells(K) ==
  {c \in DOMAIN K.is_wall :
     c[1] = 0 \/ c[1] = K.rows - 1 \/ c[2] = 0 \/ c[2] = K.cols - 1}

\* C31: on a grid with at least 3 rows and 3 columns, during and after the
\* carving and the openings step of generate_wall(grid, 'maze') every cell of
\* row 0, the last row, column 0 and the last column is a wall, whatever the
\* random choices.
C31_BorderStaysWall ==
  (carve.phase # "idle" /\ carve.rows >= 3 /\ carve.cols >= 3) =>
    \A c \in BorderCells(carve) : carve.is_wall[c]

\* generate_wall has returned on a 5 x 5 grid whose openings step has opened
\* every cell inside the border
C31_Witness ==
  /\ carve.phase = "opened"
  /\ carve.rows = 5
  /\ carve.cols = 5
  /\ carve.openings = num_openings(5, 5)
  /\ Cardinality(Passages(carve)) = 9
  /\ Cardinality(carve.visited) = 4


\* the cells on the stack, and the number of stack.append calls made so far:
\* the first one, and one for every iteration that did not pop
StackCells(K) == {K.stack[i] : i \in DOMAIN K.stack}
Pushes(K) == (K.iterations + 1 + Len(K.stack)) \div 2

\* C32: the carving terminates for every grid size and every sequence of
\* random choices: the stack empties; each cell is pushed at most once (the
\* number of pushes is the number of distinct cells pushed, and no cell is on
\* the stack twice); and the number of loop iterations is at most twice the
\* number of visited cells.
C32_CarvingTerminates ==
  /\ [](carve.phase \in {"carving", "carved"} =>
          /\ Pushes(carve) = Cardinality(carve.visited \cup StackCells(carve))
          /\ Cardinality(StackCells(carve)) = Len(carve.stack)
          /\ carve.iterations <= 2 * Cardinality(carve.visited))
  /\ <>(carve.phase = "carved" /\ carve.stack = << >>)

\* the carving has ended on the largest grid after visiting nine lattice cells
\* in seventeen iterations
C32_Witness ==
  /\ carve.phase = "carved"
  /\ carve.stack = << >>
  /\ carve.rows = MaxMazeDim
  /\ Cardinality(carve.visited) = 9
  /\ carve.iterations = 17


\* C33: _prims_algorithm on an all-wall grid with at least 3 rows and 3 columns
\* terminates for every sequence of random choices, and when it has the
\* passages are connected and acyclic under cardinal adjacency (each reaches
\* all, and the adjacent pairs number one less than the cells) and contain
\* every odd-row odd-column cell with 1 <= row < rows - 1, 1 <= col < cols - 1.
C33_PrimsBuildsSpanningTree ==
  /\ [](carve.phase = "grown" =>
          /\ \A c \in Passages(carve) : PassageReach(carve, {c}) = Passages(carve)
          /\ Cardinality({p \in Passages(carve) \X Passages(carve) :
                            CardinalAdjacent(p[1], p[2])})
               = 2 * (Cardinality(Passages(carve)) - 1)
          /\ \A c \in DOMAIN carve.is_wall :
               (/\ c[1] % 2 = 1 /\ c[2] % 2 = 1
                /\ 1 <= c[1] /\ c[1] < carve.rows - 1
                /\ 1 <= c[2] /\ c[2] < carve.cols - 1) => ~carve.is_wall[c])
  /\ <>(carve.phase = "grown" /\ carve.walls = << >>)

\* the growth has ended on a grid whose lattice has cycles (3 x 3 cells)
C33_Witness ==
  /\ carve.phase = "grown"
  /\ carve.walls = << >>
  /\ carve.rows = 7
  /\ carve.cols = 7
  /\ Cardinality(Passages(carve)) = 17


\* the cells of the entries (distance, id, node) of a priority queue
QueuedCells(q) == {q[i][3] : i \in DOMAIN q}

\* C34: within one search run every cell is pushed onto the priority queue at
\* most once and finalized at most once: no cell has two entries in the queue,
\* no queued cell has been finalized before, no cell is finalized twice; every
\* queued cell is in unvisited_set, so the pop never finds a stale entry; and
\* the pops are at most as many as the cells that are not walls.
C34_PushedAndFinalizedOnce ==
  \A w \in Workers :
    /\ Cardinality(QueuedCells(pq[w])) = Len(pq[w])
    /\ \A i \in DOMAIN order[w] : order[w][i] \notin QueuedCells(pq[w])
    /\ \A i, j \in DOMAIN order[w] : order[w][i] = order[w][j] => i = j
    /\ QueuedCells(pq[w]) \subseteq unvisited_set[w]
    /\ pc[w] \in InLoop \cup {"post"} =>
         Len(order[w]) <= Cardinality({n \in Node : ~is_wall[n]})


\* a search is under way or has just returned: a worker is in the loop of
\* dijkstra, at the return of dijkstra or at the backward walk
SearchUnderWay == \E w \in Workers : pc[w] \in InLoop \cup {"post", "walk"}

\* C35: at every point of a search run every cell with a predecessor p has p
\* finalized, cardinally adjacent and not a wall, and its distance is p's
\* distance + 1; the start has no predecessor; following the predecessors from
\* such a cell passes exactly as many cells as its distance and ends at the
\* start; and the backward walk of reconstruct_path ends.
C35_PredecessorsFormShortestTree ==
  SearchUnderWay =>
    /\ \A n \in Node :
         previous[n] # None =>
           /\ visited[previous[n]]
           /\ CardinalAdjacent(previous[n], n)
           /\ ~is_wall[previous[n]]
           /\ distance[n] = distance[previous[n]] + 1
           /\ LET chain == PredecessorChain(previous, n, NumCells)
              IN  Len(chain) = distance[n] /\ chain[Len(chain)] = start_node
    /\ start_node # None => previous[start_node] = None
    /\ \A w \in Workers :
         pc[w] = "walk" => ~WalkBack(previous, color, end_node, << >>, NumCells).loops


\* C36: between the iterations of the search loop a cell other than start and
\* goal is coloured Frontier exactly when it is in unvisited_set (queued, not
\* finalized) and coloured Visited exactly when it is finalized; every other
\* cell that is not a wall has the default colour.
C36_ColoursTrackSearchState ==
  \A w \in Workers :
    pc[w] \in InLoop =>
      \A n \in Node \ {start_node, end_node} :
        /\ color[n] = NODE_NEIGHBOR <=> n \in unvisited_set[w]
        /\ color[n] = NODE_VISITED <=> visited[n]
        /\ (~is_wall[n] /\ n \notin unvisited_set[w] /\ ~visited[n]) => color[n] = NODE_DEFAULT


\* C37: pathfinding_paused is True only while a run is in progress: in every
\* state in which is_pathfinding_in_progress() is False (before any run, after
\* a completion, after a stop) get_state reports pathfinding_paused False.
C37_PausedOnlyDuringRun ==
  ~is_pathfinding_in_progress => ~pathfinding_paused


\* C38: a worker's final flag update ends its own run only: for a worker that
\* a stop has signalled should_stop() is True for as long as it lives, whatever
\* is started later; and the `finally` of a worker whose run is not the latest
\* one leaves pathfinding_active and pathfinding_completed of a run in
\* progress as they are.
C38_WorkerEndsOwnRunOnly ==
  /\ [](\A w \in Workers : (signalled[w] /\ is_alive(w)) => should_stop)
  /\ [][\A w \in Workers :
          (Finally(w) /\ pathfinding_thread # w /\ is_pathfinding_in_progress) =>
            UNCHANGED <<pathfinding_active, pathfinding_completed>>]_vars


\* C39: the setup state agrees with the designations of the grid after any
\* sequence of clicks, generations, clears and runs: WAITING_START implies
\* that start and goal are both unset, WAITING_END that the start is set and
\* the goal unset, READY or PATHFINDING that both are set.
C39_SetupStateMatchesDesignations ==
  /\ state = "WAITING_START" => (start_node = None /\ end_node = None)
  /\ state = "WAITING_END" => (start_node # None /\ end_node = None)
  /\ state \in {"READY", "PATHFINDING"} => (start_node # None /\ end_node # None)


====
